---- MODULE Spec2Model ----
(***************************************************************************)
(* k8s-controller: a deployment informer, a leader-elected                 *)
(* controller-runtime manager and the Deployment reconciler it runs.       *)
(*                                                                         *)
(* The specifications of this module share its variables; each leaves the  *)
(* parts it does not use at their initial values:                          *)
(*   Spec          N replicas of `server` (cmd/server.go): leader election *)
(*                 over one lease, the reconcile queue and its workers;    *)
(*   SpecCache     the informer cache and the event handlers               *)
(*                 (pkg/informer/informer.go);                             *)
(*   SpecReconcile DeploymentReconciler.Reconcile against the store        *)
(*                 (pkg/ctrl/deployment_controller.go);                    *)
(*   SpecClassify  the successive snapshots of one deployment and what the *)
(*                 handlers and logDeploymentEvent log for each;           *)
(*   SpecInformer  one StartDeploymentInformer call, Stop and              *)
(*                 WaitForCacheSync; SpecInformerLive adds the fairness of *)
(*                 the call's own steps;                                   *)
(*   SpecConfig    NewDeploymentInformer and the client construction of    *)
(*                 the commands on every configuration and environment;    *)
(*   SpecLease     the election alone, under fair scheduling;              *)
(*   SpecRead      GetDeploymentNames callers beside the informer          *)
(*                 goroutine;                                              *)
(*   SpecWatch     the watch sessions, relists and resyncs feeding the     *)
(*                 cache, and the delete handler;                          *)
(*   SpecShutdown  the loops serverCmd.Run starts and the shutdown signal; *)
(*   SpecName      getDeploymentName on a table of arguments.              *)
(* The lease protocol, the work queue and the informer store are           *)
(* controller-runtime / client-go code that the repository only configures *)
(* and calls; those parts are modelled from the design specification       *)
(* (sections 4.2, 4.5, 4.6) and are marked so in MODEL_MAP.json.           *)
(***************************************************************************)
EXTENDS Integers, Sequences, FiniteSets, TLC

VARIABLES
  \* ---- Spec: leader election, queue, workers
  enableLeaderElection, \* --enable-leader-election (cmd/server.go:142)
  now,                  \* logical clock
  lease,                \* the shared LeaseRecord, or NoLease
  role,                 \* replica -> "Candidate" | "Follower" | "Leader" | "Stopped"
  renewDeadline,        \* replica -> deadline its renew loop is armed with, 0 = none
  queue,                \* replica -> sequence of pending reconcile keys
  inflight,             \* replica -> key -> number of workers reconciling it
  \* ---- SpecCache: informer cache and handlers
  variant,              \* which StartDeploymentInformer registered the handlers
  cache,                \* key -> cached snapshot, or Absent
  applied,              \* the ChangeEvents applied so far, in order
  notified,             \* what the handlers logged during the last operation
  lastList,             \* the full list of the last operation if a Resync, else NoList
  crashed,              \* a handler panicked: the process is gone
  \* ---- SpecReconcile: one Reconcile call at a time
  cluster,              \* key -> Deployment the client's Get reads, or NoDeployment
  pending,              \* keys waiting in the reconciler's queue
  backoff,              \* keys re-added rate-limited, their delay not yet over
  numRequeues,          \* key -> failures the rate limiter has counted
  lastReq,              \* the request whose Reconcile just returned, or NoReq
  lastGet,              \* what r.Get returned for it: "found" | "notfound" | "error"
  lastResult,           \* what Reconcile returned: [requeue, err]
  signals,              \* what Reconcile logged
  \* ---- SpecClassify: the snapshots of one deployment, as its observers see them
  oldSnap,              \* the snapshot delivered before newSnap, or NoSnap
  newSnap,              \* the snapshot delivered last, or NoSnap
  updateEvents,         \* what the informer's handler logged for that delivery
  derived,              \* what the reconciler logged for that delivery
  \* ---- SpecInformer: one StartDeploymentInformer call and its informer
  ctxState,             \* the context passed to it: "live" | "cancelled" | "deadline"
  diPc,                 \* where the call stands: "constructed" | "waitSync" |
                        \*   "blocked" | "returned" | "exited"
  startErr,             \* what it returned: "none" yet | "nil" | "syncError"
  stopCh,               \* di.stopCh: "open" | "closed"
  closes,               \* close(di.stopCh) statements executed
  stopCalls,            \* Stop() calls made
  reflector,            \* the informer's list-and-watch loop: "idle" | "running" | "stopped"
  listed,               \* its first full list has been received
  initialPending,       \* items of the first full list not yet applied
  hasSynced,            \* informer.HasSynced()
  lastActivity,         \* what the loop did last
  waiterPc,             \* a WaitForCacheSync(ctx) call: "idle" | "waiting" | "true" | "false"
  \* ---- SpecConfig: building the Kubernetes client at startup
  cfgIn,                \* the configuration and the environment of the process
  cfgOut,               \* what the constructor returned, or NoOut
  \* ---- SpecRead: GetDeploymentNames callers beside the informer goroutine
  informerVar,          \* the words of the package variable deploymentInformer
                        \*   written so far: "nil" | "typeOnly" | "dataOnly" | "set"
  readerPc,             \* a GetDeploymentNames call: "idle" | "loaded"
  readerView,           \* what the call read from the package variable
  readResult,           \* what the last call returned
  \* ---- SpecWatch: the watch sessions feeding the cache
  watchState,           \* "closed" | "listed" | "resynced" | "open"
  sessionRV,            \* key -> resourceVersion the open session has reached for it
  \* ---- SpecShutdown: the loops serverCmd.Run starts and their contexts
  srvVariant,           \* which server command runs: "manager" (cmd/server.go:25-121)
                        \*   | "signal" (cmd/server.go:191-230)
  enableInformer,       \* --enable-informer
  runPc,                \* where Run stands
  loopState,            \* loop -> "none" | "syncing" | "running" | "notListening" |
                        \*   "shuttingDown" | "stopped" | "failed" | "syncFailed"
  openConns,            \* connections the HTTP server is serving
  loopCtx,              \* loop -> the context it waits on: "none" | "background" |
                        \*   "cmd" | "root"
  shutdownSignalled,    \* shutdown has been signalled to the process
  ctxCancelled,         \* the contexts cancelled so far
  procUp,               \* the process has not called os.Exit
  \* ---- SpecName: calls of getDeploymentName over a table of cases
  nameVariant,          \* "struct" (informer.go:353-359) | "package" (informer.go:148-153)
  nameTests,            \* the table of cases: the arguments, in order
  nameResults           \* what the calls made so far returned, in order

leVars == <<enableLeaderElection, now, lease, role, renewDeadline, queue, inflight>>
cacheVars == <<variant, cache, applied, notified, lastList, crashed>>
recVars == <<cluster, pending, backoff, numRequeues, lastReq, lastGet, lastResult, signals>>
classVars == <<oldSnap, newSnap, updateEvents, derived>>
lifeVars == <<ctxState, diPc, startErr, stopCh, closes, stopCalls, reflector, listed,
              initialPending, hasSynced, lastActivity, waiterPc>>
cfgVars == <<cfgIn, cfgOut>>
readVars == <<informerVar, readerPc, readerView, readResult>>
watchVars == <<watchState, sessionRV>>
shutVars == <<srvVariant, enableInformer, runPc, loopState, openConns, loopCtx,
              shutdownSignalled, ctxCancelled, procUp>>
nameVars == <<nameVariant, nameTests, nameResults>>
vars == <<leVars, cacheVars, recVars, classVars, lifeVars, cfgVars, readVars, watchVars, shutVars, nameVars>>

\* ---------------------------------------------------------------- bounds
NumReplicas == 2
MaxTime == 4
MaxQueue == 2
MaxEvents == 3
MaxRV == 2
MaxReplicas == 2
MaxRequeues == 2
MaxCount == 5
MaxCurrent == 3
MaxItems == 2
MaxStops == 2
MaxConns == 2

Replicas == 1..NumReplicas
Keys == {"d1", "d2"}

\* "No object": a nil pointer / a missing map entry.
Absent == [kind |-> "None", name |-> "", rv |-> 0, replicas |-> 0]
NoLease == [holder |-> 0, acquiredAt |-> 0, renewDeadline |-> 0, term |-> 0]
NoList == [k \in Keys |-> [kind |-> "NoList", name |-> "", rv |-> 0, replicas |-> 0]]
NoReq == "noreq"
NoDeployment ==
  [present |-> FALSE, desired |-> 0, current |-> 0, conditions |-> <<>>, resources |-> FALSE]
NoSnap ==
  [present |-> FALSE, rv |-> 0, desired |-> 0, current |-> 0, conditions |-> <<>>,
   resources |-> FALSE]

\* ------------------------------------------------ fixed values of the idle parts
CacheIdle ==
  /\ variant = "struct"
  /\ cache = [k \in Keys |-> Absent]
  /\ applied = <<>>
  /\ notified = <<>>
  /\ lastList = NoList
  /\ crashed = FALSE

RecIdle ==
  /\ cluster = [k \in Keys |-> NoDeployment]
  /\ pending = {}
  /\ lastReq = NoReq
  /\ lastGet = "none"
  /\ lastResult = [requeue |-> FALSE, err |-> FALSE]
  /\ signals = <<>>
  /\ backoff = {}
  /\ numRequeues = [k \in Keys |-> 0]

ClassIdle ==
  /\ oldSnap = NoSnap
  /\ newSnap = NoSnap
  /\ updateEvents = <<>>
  /\ derived = <<>>

NoErr == ""
NoOut ==
  [fn |-> "none", err |-> NoErr, clientset |-> FALSE, informer |-> FALSE, builds |-> 0,
   auth |-> ""]

CfgIdle ==
  /\ cfgIn = [InCluster |-> FALSE, Kubeconfig |-> "", inClusterEnv |-> FALSE,
               flagKubeconfig |-> "", envKubeconfig |-> "", home |-> "",
               homeConfigExists |-> FALSE]
  /\ cfgOut = NoOut

NoRead == [kind |-> "none", names |-> <<>>]

ReadIdle ==
  /\ informerVar = "nil"
  /\ readerPc = "idle"
  /\ readerView = "nil"
  /\ readResult = NoRead

Loops == {"informer", "manager", "http"}
\* A loop that has been started and has not returned.
Active(st) == st \in {"syncing", "running", "notListening", "shuttingDown"}

NameIdle ==
  /\ nameVariant = "struct"
  /\ nameTests = <<>>
  /\ nameResults = <<>>

ShutIdle ==
  /\ srvVariant = "signal"
  /\ enableInformer = FALSE
  /\ runPc = "start"
  /\ loopState = [l \in Loops |-> "none"]
  /\ openConns = 0
  /\ loopCtx = [l \in Loops |-> "none"]
  /\ shutdownSignalled = FALSE
  /\ ctxCancelled = {}
  /\ procUp = TRUE

WatchIdle ==
  /\ watchState = "closed"
  /\ sessionRV = [k \in Keys |-> 0]

LifeIdle ==
  /\ ctxState = "live"
  /\ diPc = "constructed"
  /\ startErr = "none"
  /\ stopCh = "open"
  /\ closes = 0
  /\ stopCalls = 0
  /\ reflector = "idle"
  /\ listed = FALSE
  /\ initialPending = 0
  /\ hasSynced = FALSE
  /\ lastActivity = "none"
  /\ waiterPc = "idle"

LeIdle ==
  /\ enableLeaderElection = TRUE
  /\ now = 0
  /\ lease = NoLease
  /\ role = [r \in Replicas |-> "Stopped"]
  /\ renewDeadline = [r \in Replicas |-> 0]
  /\ queue = [r \in Replicas |-> <<>>]
  /\ inflight = [r \in Replicas |-> [k \in Keys |-> 0]]

\* ======================================================================
\* Spec: the leader-elected manager (cmd/server.go:63-85) on N replicas
\* ======================================================================

\* Lease duration in clock ticks (the LeaseRecord's term of validity).
LeaseTerm == 2

\* controller.Options{MaxConcurrentReconciles: 1}
MaxConcurrentReconcilesTwo == 1 + 1
MaxConcurrentReconciles == 1

\* manager.Options as built at cmd/server.go:63-68 sets LeaderElection,
\* LeaderElectionID, LeaderElectionNamespace and Metrics only: the
\* LeaderElectionReleaseOnCancel field keeps Go's zero value.
LeaderElectionReleaseOnCancel == FALSE

ExpiredNever(rec, t) == FALSE
Expired(rec, t) == t >= rec.renewDeadline

\* Section 4.5: acquire succeeds if the record is absent, expired, or already
\* held by self; it fails if held by a live, non-expired other identity.
AcquireAllowedNoExpiry(rec, id, t) == TRUE
AcquireAllowed(rec, id, t) ==
  \/ rec = NoLease
  \/ Expired(rec, t)
  \/ rec.holder = id

NewRecord(rec, id, t) ==
  [holder |-> id,
   acquiredAt |-> IF rec # NoLease /\ rec.holder = id THEN rec.acquiredAt ELSE t,
   renewDeadline |-> t + LeaseTerm,
   term |-> IF rec # NoLease /\ rec.holder = id THEN rec.term ELSE rec.term + 1]

\* Leadership lost: the renew loop ends, the manager's Start returns "leader
\* election lost" and cmd/server.go:81-84 logs it and calls os.Exit(1).  The
\* manager's stop procedure lets running reconciles return before that.
ManagerExitedKeepsLeading(r) == role' = role
ManagerExited(r) == role' = [role EXCEPT ![r] = "Stopped"]

\* LeaderElection: false => the manager starts its runnables at once (its
\* Elected channel is closed without any lease).
StartUnelected(r) ==
  /\ ~enableLeaderElection
  /\ role[r] = "Candidate"
  /\ role' = [role EXCEPT ![r] = "Leader"]
  /\ UNCHANGED <<enableLeaderElection, now, lease, renewDeadline, queue, inflight>>
  /\ UNCHANGED <<cacheVars, recVars, classVars, lifeVars, cfgVars, readVars, watchVars, shutVars, nameVars>>

\* One atomic acquire-or-renew attempt of replica r that reaches the store.
TryAcquireOrRenew(r) ==
  /\ enableLeaderElection
  /\ role[r] \in {"Candidate", "Leader"}
  /\ IF AcquireAllowed(lease, r, now)
       THEN /\ lease' = NewRecord(lease, r, now)
            /\ renewDeadline' = [renewDeadline EXCEPT ![r] = now + LeaseTerm]
            /\ role' = [role EXCEPT ![r] = "Leader"]
       ELSE /\ UNCHANGED lease
            /\ IF role[r] = "Leader"
                 THEN /\ renewDeadline' = [renewDeadline EXCEPT ![r] = 0]
                      /\ ManagerExited(r)
                 ELSE /\ UNCHANGED renewDeadline
                      /\ role' = [role EXCEPT ![r] = "Follower"]
  /\ UNCHANGED <<enableLeaderElection, now, queue, inflight>>
  /\ UNCHANGED <<cacheVars, recVars, classVars, lifeVars, cfgVars, readVars, watchVars, shutVars, nameVars>>

\* A Follower's retry timer fires.
Retry(r) ==
  /\ role[r] = "Follower"
  /\ role' = [role EXCEPT ![r] = "Candidate"]
  /\ UNCHANGED <<enableLeaderElection, now, lease, renewDeadline, queue, inflight>>
  /\ UNCHANGED <<cacheVars, recVars, classVars, lifeVars, cfgVars, readVars, watchVars, shutVars, nameVars>>

\* A Leader's renewal attempt fails (store unreachable or write refused).
RenewFails(r) ==
  /\ enableLeaderElection
  /\ role[r] = "Leader"
  /\ renewDeadline' = [renewDeadline EXCEPT ![r] = 0]
  /\ ManagerExited(r)
  /\ UNCHANGED <<enableLeaderElection, now, lease, queue, inflight>>
  /\ UNCHANGED <<cacheVars, recVars, classVars, lifeVars, cfgVars, readVars, watchVars, shutVars, nameVars>>

\* The renew deadline is about to pass without a confirmed renewal.
DeadlineReached(r) ==
  /\ enableLeaderElection
  /\ renewDeadline[r] # 0
  /\ now + 1 >= renewDeadline[r]
  /\ renewDeadline' = [renewDeadline EXCEPT ![r] = 0]
  /\ ManagerExited(r)
  /\ UNCHANGED <<enableLeaderElection, now, lease, queue, inflight>>
  /\ UNCHANGED <<cacheVars, recVars, classVars, lifeVars, cfgVars, readVars, watchVars, shutVars, nameVars>>

\* Time passes.  An armed renew deadline fires before the clock passes it
\* (section 4.5: "must immediately demote").
TickAllowed ==
  /\ now < MaxTime
  /\ \A r \in Replicas : renewDeadline[r] # 0 => now + 1 < renewDeadline[r]

Tick ==
  /\ TickAllowed
  /\ now' = now + 1
  /\ UNCHANGED <<enableLeaderElection, lease, role, renewDeadline, queue, inflight>>
  /\ UNCHANGED <<cacheVars, recVars, classVars, lifeVars, cfgVars, readVars, watchVars, shutVars, nameVars>>

\* cmd.Context() is cancelled: mgr.Start returns nil (cmd/server.go:81).
Shutdown(r) ==
  /\ role[r] # "Stopped"
  /\ role' = [role EXCEPT ![r] = "Stopped"]
  /\ renewDeadline' = [renewDeadline EXCEPT ![r] = 0]
  /\ lease' = IF /\ LeaderElectionReleaseOnCancel
                 /\ enableLeaderElection
                 /\ role[r] = "Leader"
                 /\ lease.holder = r
                THEN NoLease ELSE lease
  /\ UNCHANGED <<enableLeaderElection, now, queue, inflight>>
  /\ UNCHANGED <<cacheVars, recVars, classVars, lifeVars, cfgVars, readVars, watchVars, shutVars, nameVars>>

\* ---------------------------------------------- reconcile queue and workers
InQueue(q, k) == \E i \in 1..Len(q) : q[i] = k
CountPending(r, k) == Cardinality({i \in 1..Len(queue[r]) : queue[r][i] = k})
InFlightTotal(r) == inflight[r]["d1"] + inflight[r]["d2"]

\* ctrl.NewControllerManagedBy(mgr)...Complete(r) hands the controller to the
\* manager with controller.Options{MaxConcurrentReconciles: 1} only, so the
\* controller stays a runnable that needs leader election.
NeedLeaderElectionOff == FALSE
NeedLeaderElection == TRUE

\* The manager runs the controller (its watch and its workers) on replica r.
ControllerRunning(r) ==
  IF NeedLeaderElection THEN role[r] = "Leader" ELSE role[r] # "Stopped"

\* Section 4.6: Enqueue(key) is idempotent: a no-op if key is pending or in flight.
AddAlways(q, fl, k) == Append(q, k)
Add(q, fl, k) == IF InQueue(q, k) \/ fl[k] > 0 THEN q ELSE Append(q, k)

\* The controller's watch delivers an event for key k on replica r.
Enqueue(r, k) ==
  /\ ControllerRunning(r)
  /\ Len(queue[r]) < MaxQueue
  /\ queue' = [queue EXCEPT ![r] = Add(queue[r], inflight[r], k)]
  /\ UNCHANGED <<enableLeaderElection, now, lease, role, renewDeadline, inflight>>
  /\ UNCHANGED <<cacheVars, recVars, classVars, lifeVars, cfgVars, readVars, watchVars, shutVars, nameVars>>

\* A worker may take the next request: at most MaxConcurrentReconciles workers,
\* and never a key that is still being reconciled.
MayDispatch(r) ==
  /\ ControllerRunning(r)
  /\ queue[r] # <<>>
  /\ InFlightTotal(r) < MaxConcurrentReconciles
  /\ inflight[r][Head(queue[r])] = 0

Dispatch(r) ==
  /\ MayDispatch(r)
  /\ inflight' = [inflight EXCEPT ![r][Head(queue[r])] = @ + 1]
  /\ queue' = [queue EXCEPT ![r] = Tail(@)]
  /\ UNCHANGED <<enableLeaderElection, now, lease, role, renewDeadline>>
  /\ UNCHANGED <<cacheVars, recVars, classVars, lifeVars, cfgVars, readVars, watchVars, shutVars, nameVars>>

\* Reconcile(k) returns on replica r; failed is "Reconcile returned an error"
\* (deployment_controller.go:37), which asks for a retry of the key.
Finish(r, k, failed) ==
  /\ inflight[r][k] > 0
  /\ inflight' = [inflight EXCEPT ![r][k] = @ - 1]
  /\ queue' = [queue EXCEPT ![r] =
                 IF failed /\ ControllerRunning(r)
                   THEN Add(queue[r], inflight'[r], k) ELSE @]
  /\ UNCHANGED <<enableLeaderElection, now, lease, role, renewDeadline>>
  /\ UNCHANGED <<cacheVars, recVars, classVars, lifeVars, cfgVars, readVars, watchVars, shutVars, nameVars>>

Init ==
  /\ enableLeaderElection \in BOOLEAN
  /\ now = 0
  /\ lease = NoLease
  /\ role = [r \in Replicas |-> "Candidate"]
  /\ renewDeadline = [r \in Replicas |-> 0]
  /\ queue = [r \in Replicas |-> <<>>]
  /\ inflight = [r \in Replicas |-> [k \in Keys |-> 0]]
  /\ CacheIdle
  /\ RecIdle
  /\ ClassIdle
  /\ LifeIdle
  /\ CfgIdle
  /\ ReadIdle
  /\ WatchIdle
  /\ ShutIdle
  /\ NameIdle

Next ==
  \/ Tick
  \/ \E r \in Replicas : StartUnelected(r)
  \/ \E r \in Replicas : TryAcquireOrRenew(r)
  \/ \E r \in Replicas : Retry(r)
  \/ \E r \in Replicas : RenewFails(r)
  \/ \E r \in Replicas : DeadlineReached(r)
  \/ \E r \in Replicas : Shutdown(r)
  \/ \E r \in Replicas : Dispatch(r)
  \/ \E r \in Replicas, k \in Keys : Enqueue(r, k)
  \/ \E r \in Replicas, k \in Keys, failed \in BOOLEAN : Finish(r, k, failed)

Spec == Init /\ [][Next]_vars

\* SpecLease: the election alone, on replicas that all enable it, with the
\* scheduling the election loop gives: the clock advances, a candidate's
\* attempt is made and a follower's retry timer fires.
InitLease == Init /\ enableLeaderElection

NextLease ==
  \/ Tick
  \/ \E r \in Replicas : TryAcquireOrRenew(r)
  \/ \E r \in Replicas : Retry(r)
  \/ \E r \in Replicas : RenewFails(r)
  \/ \E r \in Replicas : DeadlineReached(r)
  \/ \E r \in Replicas : Shutdown(r)

SpecLease ==
  /\ InitLease
  /\ [][NextLease]_vars
  /\ WF_vars(Tick)
  /\ \A r \in Replicas : WF_vars(TryAcquireOrRenew(r)) /\ WF_vars(Retry(r))

\* ======================================================================
\* SpecCache: the deployment informer (pkg/informer/informer.go)
\* ======================================================================
KeySeq == <<"d1", "d2">>
NilReplicas == 0 - 1

\* A Deployment as the informer sees it: name, resourceVersion, Spec.Replicas
\* (a pointer: NilReplicas when unset).  The API server fills Spec.Replicas in,
\* so the snapshots the watch and the list deliver here carry a count.
Snapshots(k) ==
  [kind : {"Deployment"}, name : {k}, rv : 1..MaxRV, replicas : {1}]

\* ChangeEvent: Added(snapshot) | Modified(new) | Deleted; the old snapshot of a
\* Modified and the last known one of a Deleted are those the cache holds.
ChangeEvents ==
  UNION {[type : {"Added", "Modified"}, key : {k}, obj : Snapshots(k)] : k \in Keys}
    \cup [type : {"Deleted"}, key : Keys, obj : {Absent}]

FullLists == [Keys -> {Absent} \cup UNION {Snapshots(k) : k \in Keys}]
WellFormedList(l) == \A k \in Keys : l[k] # Absent => l[k].name = k

\* getDeploymentName (informer.go:353-359).
getDeploymentName(d) == IF d = Absent THEN "unknown" ELSE d.name

Panic == [event |-> "PANIC", deployment |-> "", old |-> 0, new |-> 0]

\* AddFunc.  "struct": informer.go:246-255 (dereferences Spec.Replicas);
\* "package": informer.go:36-38.
AddFunc(v, obj) ==
  IF v = "struct"
    THEN IF obj.replicas = NilReplicas
           THEN <<Panic>>
           ELSE <<[event |-> "ADD", deployment |-> getDeploymentName(obj),
                   old |-> 0, new |-> 0]>>
    ELSE <<[event |-> "ADD", deployment |-> getDeploymentName(obj),
            old |-> 0, new |-> 0]>>

\* UpdateFunc.  "struct": informer.go:256-274 logs only when the
\* resourceVersion changed; "package": informer.go:39-41 logs every update.
UpdateFunc(v, old, new) ==
  IF v = "struct"
    THEN IF old.rv # new.rv
           THEN IF old.replicas = NilReplicas \/ new.replicas = NilReplicas
                  THEN <<Panic>>
                  ELSE <<[event |-> "UPDATE", deployment |-> getDeploymentName(new),
                          old |-> old.rv, new |-> new.rv]>>
           ELSE <<>>
    ELSE <<[event |-> "UPDATE", deployment |-> getDeploymentName(new),
            old |-> 0, new |-> 0]>>

\* cache.DeletedFinalStateUnknown{Key, Obj}: the payload of a deletion found by
\* a relist, wrapping the object the store held.
Tombstone(obj) ==
  [kind |-> IF obj.kind = "Deployment" THEN "Tombstone" ELSE "TombstoneOther",
   name |-> obj.name, rv |-> obj.rv, replicas |-> obj.replicas]

\* Payloads a delete handler can be called with that are no deployment: an
\* object of another type, and a tombstone wrapping one.
Other(k) == [kind |-> "Other", name |-> k, rv |-> 1, replicas |-> 1]
ForeignPayloads == {Other(k) : k \in Keys} \cup {Tombstone(Other(k)) : k \in Keys}

ErrorLog == [event |-> "ERROR", deployment |-> "", old |-> 0, new |-> 0]

\* getDeploymentName(obj any) of the package-level handlers (informer.go:148-153):
\* the name of any metav1.Object, "unknown" for anything else.
getDeploymentNameAny(obj) ==
  IF obj.kind \in {"Deployment", "Other"} THEN obj.name ELSE "unknown"

\* DeleteFunc.  "struct": informer.go:275-296 unwraps a tombstone and logs an
\* error for a payload that is no deployment; "package": informer.go:42-44
\* logs a delete for every payload.
DeleteFuncLogsEveryPayload(v, obj) ==
  <<[event |-> "DELETE", deployment |-> getDeploymentNameAny(obj), old |-> 0, new |-> 0]>>
DeleteFunc(v, obj) ==
  IF v = "struct"
    THEN IF obj.kind \in {"Deployment", "Tombstone"}
           THEN <<[event |-> "DELETE", deployment |-> getDeploymentName(obj),
                   old |-> 0, new |-> 0]>>
           ELSE <<ErrorLog>>
    ELSE <<[event |-> "DELETE", deployment |-> getDeploymentNameAny(obj),
            old |-> 0, new |-> 0]>>

\* The store's upsert-or-remove (section 4.2 ApplyEvent).
Apply(c, e) ==
  IF e.type = "Deleted" THEN [c EXCEPT ![e.key] = Absent]
                        ELSE [c EXCEPT ![e.key] = e.obj]

\* What the handlers log for event e arriving at cache c.
Notify(v, c, e) ==
  IF e.type = "Deleted"
    THEN IF c[e.key] = Absent THEN <<>>
         ELSE DeleteFunc(v, IF e.obj = Absent THEN c[e.key] ELSE e.obj)
    ELSE IF c[e.key] = Absent THEN AddFunc(v, e.obj)
                              ELSE UpdateFunc(v, c[e.key], e.obj)

RECURSIVE ApplyAll(_, _)
ApplyAll(c, es) == IF es = <<>> THEN c ELSE ApplyAll(Apply(c, Head(es)), Tail(es))

RECURSIVE NotifyAll(_, _, _)
NotifyAll(v, c, es) ==
  IF es = <<>> THEN <<>>
  ELSE Notify(v, c, Head(es)) \o NotifyAll(v, Apply(c, Head(es)), Tail(es))

\* Resync(fullList), section 4.2/4.4: a cached key absent from the list is
\* synthesized as Deleted, its payload the tombstone of the cached snapshot; a
\* listed key is delivered as Added when new and as
\* Modified (old = the cached snapshot) when cached.  An unchanged entry is
\* delivered too, as an update whose old and new resourceVersion are equal:
\* this is the delivery UpdateFunc's resourceVersion test is written for.
RECURSIVE ResyncEvents(_, _, _)
ResyncEvents(c, l, ks) ==
  IF ks = <<>> THEN <<>>
  ELSE LET k == Head(ks)
           e == IF l[k] = Absent
                  THEN IF c[k] = Absent THEN <<>>
                       ELSE <<[type |-> "Deleted", key |-> k, obj |-> Tombstone(c[k])]>>
                  ELSE IF c[k] = Absent
                         THEN <<[type |-> "Added", key |-> k, obj |-> l[k]]>>
                         ELSE <<[type |-> "Modified", key |-> k, obj |-> l[k]]>>
       IN e \o ResyncEvents(c, l, Tail(ks))

HasPanic(log) == \E i \in 1..Len(log) : log[i].event = "PANIC"

\* ListDeployments (informer.go:338-351): every object of the store that is a
\* *appsv1.Deployment.
ListDeploymentsDropsAll(c) == {}
ListDeployments(c) ==
  {c[k] : k \in {x \in Keys : c[x] # Absent /\ c[x].kind = "Deployment"}}

\* One watch event is applied to the cache and handed to the handlers.
ApplyEvent(e) ==
  /\ ~crashed
  /\ Len(applied) < MaxEvents
  /\ cache' = Apply(cache, e)
  /\ applied' = Append(applied, e)
  /\ notified' = Notify(variant, cache, e)
  /\ crashed' = HasPanic(notified')
  /\ lastList' = NoList
  /\ UNCHANGED variant
  /\ UNCHANGED <<leVars, recVars, classVars, lifeVars, cfgVars, readVars, watchVars, shutVars, nameVars>>

\* A relist / resync against the full list l.
Resync(l) ==
  /\ ~crashed
  /\ WellFormedList(l)
  /\ LET es == ResyncEvents(cache, l, KeySeq) IN
       /\ Len(applied) + Len(es) <= MaxEvents
       /\ cache' = ApplyAll(cache, es)
       /\ applied' = applied \o es
       /\ notified' = NotifyAll(variant, cache, es)
  /\ crashed' = HasPanic(notified')
  /\ lastList' = l
  /\ UNCHANGED variant
  /\ UNCHANGED <<leVars, recVars, classVars, lifeVars, cfgVars, readVars, watchVars, shutVars, nameVars>>

InitCache ==
  /\ variant \in {"struct", "package"}
  /\ cache = [k \in Keys |-> Absent]
  /\ applied = <<>>
  /\ notified = <<>>
  /\ lastList = NoList
  /\ crashed = FALSE
  /\ LeIdle
  /\ RecIdle
  /\ ClassIdle
  /\ LifeIdle
  /\ CfgIdle
  /\ ReadIdle
  /\ WatchIdle
  /\ ShutIdle
  /\ NameIdle

NextCache ==
  \/ \E e \in ChangeEvents : ApplyEvent(e)
  \/ \E l \in FullLists : Resync(l)

SpecCache == InitCache /\ [][NextCache]_vars

\* ======================================================================
\* SpecReconcile: DeploymentReconciler (pkg/ctrl/deployment_controller.go)
\* ======================================================================
ConditionLists ==
  {<<>>,
   <<[type |-> "Available", status |-> "True", reason |-> "MinimumReplicasAvailable"]>>}

\* A Deployment as Reconcile reads it: Spec.Replicas (NilReplicas when unset),
\* Status.Replicas, Status.Conditions, and whether its container declares
\* resource requests or limits.
Deployments ==
  [present : {TRUE}, desired : {NilReplicas} \cup 0..MaxReplicas,
   current : 0..MaxReplicas, conditions : ConditionLists, resources : BOOLEAN]

\* deployment_controller.go:50-54: an unset Spec.Replicas counts as 0.
DesiredReplicas(d) == IF d.desired = NilReplicas THEN 0 ELSE d.desired

NoCond == [type |-> "", status |-> "", reason |-> ""]
LogLine(m, k, from, to, c) == [msg |-> m, name |-> k, from |-> from, to |-> to, cond |-> c]

\* deployment_controller.go:72-89.
ScalingLogSwapped(k, d) ==
  IF d.current # DesiredReplicas(d)
    THEN IF d.current > DesiredReplicas(d)
           THEN <<LogLine("scaling UP", k, d.current, DesiredReplicas(d), NoCond)>>
           ELSE <<LogLine("scaling DOWN", k, d.current, DesiredReplicas(d), NoCond)>>
    ELSE <<>>
ScalingLog(k, d) ==
  IF d.current # DesiredReplicas(d)
    THEN IF d.current < DesiredReplicas(d)
           THEN <<LogLine("scaling UP", k, d.current, DesiredReplicas(d), NoCond)>>
           ELSE <<LogLine("scaling DOWN", k, d.current, DesiredReplicas(d), NoCond)>>
    ELSE <<>>

\* deployment_controller.go:91-102.
ConditionLog(k, d) ==
  [i \in 1..Len(d.conditions) |-> LogLine("condition", k, 0, 0, d.conditions[i])]

\* deployment_controller.go:104-117.
ResourceLog(k, d) ==
  IF d.resources THEN <<LogLine("resources", k, 0, 0, NoCond)>> ELSE <<>>

\* logDeploymentEvent (deployment_controller.go:46-118).
logDeploymentEvent(k, d) ==
  <<LogLine("status", k, d.current, DesiredReplicas(d), NoCond)>>
    \o ScalingLog(k, d) \o ConditionLog(k, d) \o ResourceLog(k, d)

\* r.Get: a transport failure, NotFound, or the object.
GetOutcome(k, getErr) ==
  IF getErr THEN "error"
  ELSE IF cluster[k].present THEN "found" ELSE "notfound"

\* Reconcile's return value (deployment_controller.go:31-43).
ReconcileResultSwallowsError(outcome) == [requeue |-> FALSE, err |-> FALSE]
ReconcileResultNotFoundIsError(outcome) == [requeue |-> FALSE, err |-> outcome # "found"]
ReconcileResult(outcome) ==
  [requeue |-> FALSE, err |-> outcome = "error"]

\* What Reconcile logs besides its banner and its error lines.
ReconcileLog(k, outcome) ==
  IF outcome = "found" THEN logDeploymentEvent(k, cluster[k]) ELSE <<>>

\* A Reconcile that removes the deployment it has read.
ReconcileCallsThenDelete(k) ==
  <<[verb |-> "get", key |-> k], [verb |-> "delete", key |-> k]>>

\* The calls Reconcile makes on its client for request k: the one r.Get of
\* deployment_controller.go:25-29; neither Reconcile nor logDeploymentEvent
\* (deployment_controller.go:46-118) calls Create, Update, Patch, Delete or
\* Status().
ReconcileCalls(k) == <<[verb |-> "get", key |-> k]>>

\* client.Client: what one call leaves in the store.  A Get reads.
ClientCall(c, call) ==
  IF call.verb = "delete" THEN [c EXCEPT ![call.key] = NoDeployment] ELSE c

RECURSIVE ClientCalls(_, _)
ClientCalls(c, calls) ==
  IF calls = <<>> THEN c ELSE ClientCalls(ClientCall(c, Head(calls)), Tail(calls))

\* The store changes; the controller's watch enqueues the key.
CreateDeployment(k, d) ==
  /\ lastReq = NoReq
  /\ ~cluster[k].present
  /\ cluster' = [cluster EXCEPT ![k] = d]
  /\ pending' = pending \cup {k}
  /\ UNCHANGED <<backoff, numRequeues, lastReq, lastGet, lastResult, signals>>
  /\ UNCHANGED <<leVars, cacheVars, classVars, lifeVars, cfgVars, readVars, watchVars, shutVars, nameVars>>

ScaleDeployment(k, n) ==
  /\ lastReq = NoReq
  /\ cluster[k].present
  /\ cluster[k].desired # n
  /\ cluster' = [cluster EXCEPT ![k].desired = n]
  /\ pending' = pending \cup {k}
  /\ UNCHANGED <<backoff, numRequeues, lastReq, lastGet, lastResult, signals>>
  /\ UNCHANGED <<leVars, cacheVars, classVars, lifeVars, cfgVars, readVars, watchVars, shutVars, nameVars>>

UpdateStatus(k, n, cs) ==
  /\ lastReq = NoReq
  /\ cluster[k].present
  /\ <<cluster[k].current, cluster[k].conditions>> # <<n, cs>>
  /\ cluster' = [cluster EXCEPT ![k].current = n, ![k].conditions = cs]
  /\ pending' = pending \cup {k}
  /\ UNCHANGED <<backoff, numRequeues, lastReq, lastGet, lastResult, signals>>
  /\ UNCHANGED <<leVars, cacheVars, classVars, lifeVars, cfgVars, readVars, watchVars, shutVars, nameVars>>

DeleteDeployment(k) ==
  /\ lastReq = NoReq
  /\ cluster[k].present
  /\ cluster' = [cluster EXCEPT ![k] = NoDeployment]
  /\ pending' = pending \cup {k}
  /\ UNCHANGED <<backoff, numRequeues, lastReq, lastGet, lastResult, signals>>
  /\ UNCHANGED <<leVars, cacheVars, classVars, lifeVars, cfgVars, readVars, watchVars, shutVars, nameVars>>

\* A worker takes request k and Reconcile runs to its return.  The client
\* fails at most MaxRequeues times in a row for one key.
Reconcile(k, getErr) ==
  /\ lastReq = NoReq
  /\ k \in pending
  /\ getErr => numRequeues[k] < MaxRequeues
  /\ pending' = pending \ {k}
  /\ lastReq' = k
  /\ lastGet' = GetOutcome(k, getErr)
  /\ lastResult' = ReconcileResult(lastGet')
  /\ signals' = ReconcileLog(k, lastGet')
  /\ cluster' = ClientCalls(cluster, ReconcileCalls(k))
  /\ UNCHANGED <<backoff, numRequeues>>
  /\ UNCHANGED <<leVars, cacheVars, classVars, lifeVars, cfgVars, readVars, watchVars, shutVars, nameVars>>

\* The controller's rate limiter: how a failed request is put back.  The
\* request waits out a delay that grows with the failures counted for its key;
\* no number of failures makes the controller give the request up.
AddRateLimited(b, k) == b \cup {k}

\* The controller acts on what Reconcile returned: an error or a requeue
\* request puts the key back rate-limited, anything else drops the request
\* and forgets the failures counted for it.
HandleResult ==
  /\ lastReq # NoReq
  /\ IF lastResult.err \/ lastResult.requeue
       THEN /\ backoff' = AddRateLimited(backoff, lastReq)
            /\ numRequeues' = [numRequeues EXCEPT ![lastReq] = @ + 1]
       ELSE /\ backoff' = backoff
            /\ numRequeues' = [numRequeues EXCEPT ![lastReq] = 0]
  /\ UNCHANGED pending
  /\ lastReq' = NoReq
  /\ lastGet' = "none"
  /\ lastResult' = [requeue |-> FALSE, err |-> FALSE]
  /\ signals' = <<>>
  /\ UNCHANGED cluster
  /\ UNCHANGED <<leVars, cacheVars, classVars, lifeVars, cfgVars, readVars, watchVars, shutVars, nameVars>>

\* The delay of a rate-limited request is over: it is pending again.
BackoffElapsed(k) ==
  /\ lastReq = NoReq
  /\ k \in backoff
  /\ backoff' = backoff \ {k}
  /\ pending' = pending \cup {k}
  /\ UNCHANGED <<cluster, numRequeues, lastReq, lastGet, lastResult, signals>>
  /\ UNCHANGED <<leVars, cacheVars, classVars, lifeVars, cfgVars, readVars, watchVars, shutVars, nameVars>>

InitReconcile ==
  /\ RecIdle
  /\ LeIdle
  /\ CacheIdle
  /\ ClassIdle
  /\ LifeIdle
  /\ CfgIdle
  /\ ReadIdle
  /\ WatchIdle
  /\ ShutIdle
  /\ NameIdle

\* The reconciler keeps nothing between two requests but its client, so the
\* requests of one key are followed.
ReconcileKeys == {"d1"}

NextReconcile ==
  \/ \E k \in ReconcileKeys, d \in Deployments : CreateDeployment(k, d)
  \/ \E k \in ReconcileKeys, n \in {NilReplicas} \cup 0..MaxReplicas : ScaleDeployment(k, n)
  \/ \E k \in ReconcileKeys, n \in 0..MaxReplicas, cs \in ConditionLists : UpdateStatus(k, n, cs)
  \/ \E k \in ReconcileKeys : DeleteDeployment(k)
  \/ \E k \in ReconcileKeys, getErr \in BOOLEAN : Reconcile(k, getErr)
  \/ HandleResult
  \/ \E k \in ReconcileKeys : BackoffElapsed(k)

SpecReconcile == InitReconcile /\ [][NextReconcile]_vars

\* ======================================================================
\* SpecClassify: the successive snapshots of one deployment and what its two
\* observers log for each: the informer's handlers (pkg/informer/informer.go)
\* and the reconciler's logDeploymentEvent (pkg/ctrl/deployment_controller.go)
\* ======================================================================
ClassifyKey == "d1"

ClassifyConditionLists ==
  {<<>>,
   <<[type |-> "Available", status |-> "True", reason |-> "MinimumReplicasAvailable"]>>,
   <<[type |-> "Available", status |-> "False", reason |-> "MinimumReplicasUnavailable"]>>}

\* A snapshot of the deployment: its resourceVersion and what Reconcile reads.
ClassifySnapshots ==
  [present : {TRUE}, rv : 1..MaxRV, desired : {NilReplicas} \cup 0..MaxCount,
   current : 0..MaxCurrent, conditions : ClassifyConditionLists, resources : {FALSE}]

\* The snapshots that carry resourceVersion rv.
SnapshotsAt(rv) == {s \in ClassifySnapshots : s.rv = rv}

\* The snapshot as the informer's handlers receive it.
AsObject(s) ==
  IF s.present
    THEN [kind |-> "Deployment", name |-> ClassifyKey, rv |-> s.rv, replicas |-> s.desired]
    ELSE Absent

\* The informer hands the delivery to AddFunc when it knew no earlier snapshot,
\* to UpdateFunc(old, new) otherwise.
HandlerLog(v, old, new) ==
  IF old.present THEN UpdateFunc(v, AsObject(old), AsObject(new))
                 ELSE AddFunc(v, AsObject(new))

\* A resourceVersion names one state of the object: a delivery carries a newer
\* resourceVersion, or repeats the snapshot delivered last (a resync).
MayFollow(s, prev) == ~prev.present \/ s.rv > prev.rv \/ s = prev

\* Snapshot s is delivered: the handler logs, the controller's watch enqueues
\* the key and Reconcile logs what it reads.  A handler that panics ends the
\* process before Reconcile runs.
Deliver(s) ==
  /\ ~crashed
  /\ MayFollow(s, newSnap)
  /\ oldSnap' = newSnap
  /\ newSnap' = s
  /\ updateEvents' = HandlerLog(variant, newSnap, s)
  /\ crashed' = HasPanic(updateEvents')
  /\ derived' = IF crashed' THEN <<>> ELSE logDeploymentEvent(ClassifyKey, s)
  /\ UNCHANGED <<variant, cache, applied, notified, lastList>>
  /\ UNCHANGED <<leVars, recVars, lifeVars, cfgVars, readVars, watchVars, shutVars, nameVars>>

InitClassify ==
  /\ variant \in {"struct", "package"}
  /\ cache = [k \in Keys |-> Absent]
  /\ applied = <<>>
  /\ notified = <<>>
  /\ lastList = NoList
  /\ crashed = FALSE
  /\ ClassIdle
  /\ LeIdle
  /\ RecIdle
  /\ LifeIdle
  /\ CfgIdle
  /\ ReadIdle
  /\ WatchIdle
  /\ ShutIdle
  /\ NameIdle

NextClassify ==
  \/ \E rv \in (newSnap.rv + 1)..MaxRV : \E s \in SnapshotsAt(rv) : Deliver(s)
  \/ newSnap.present /\ Deliver(newSnap)

SpecClassify == InitClassify /\ [][NextClassify]_vars

\* ======================================================================
\* SpecInformer: one call of StartDeploymentInformer, the informer it starts,
\* Stop() and WaitForCacheSync() (pkg/informer/informer.go)
\* ======================================================================
\* The channel the factory is started with is closed: di.stopCh for
\* DeploymentInformer (informer.go:303), ctx.Done() for the package-level
\* function (informer.go:48).
FactoryStopped ==
  IF variant = "struct" THEN stopCh = "closed" ELSE ctxState # "live"

\* informer.HasSynced(): true once the first full list has been received and
\* all its items applied, and from then on.
HasSyncedAfterAnyEvent(h, l, p) == TRUE
HasSyncedAfter(h, l, p) == h \/ (l /\ p = 0)

\* cache.WaitForCacheSync(stop, HasSynced): the set of values it can return
\* now.  It returns true when it sees HasSynced, false when it sees the stop
\* channel closed, and blocks while neither holds.
WaitForCacheSyncResults ==
  {res \in BOOLEAN : IF res THEN hasSynced ELSE ctxState # "live"}

\* StartDeploymentInformer up to the sync wait: the handlers are registered
\* and the factory is started (informer.go:244-303, 35-48).
Start ==
  /\ ~crashed
  /\ diPc = "constructed"
  /\ diPc' = "waitSync"
  /\ reflector' = "running"
  /\ UNCHANGED <<ctxState, startErr, stopCh, closes, stopCalls, listed, initialPending,
                 hasSynced, lastActivity, waiterPc>>
  /\ UNCHANGED <<cacheVars, leVars, recVars, classVars, cfgVars, readVars, watchVars, shutVars, nameVars>>

\* The informer's loop ends when the channel it was started with is closed.
ReflectorStops ==
  /\ ~crashed
  /\ reflector = "running"
  /\ FactoryStopped
  /\ reflector' = "stopped"
  /\ UNCHANGED <<ctxState, diPc, startErr, stopCh, closes, stopCalls, listed,
                 initialPending, hasSynced, lastActivity, waiterPc>>
  /\ UNCHANGED <<cacheVars, leVars, recVars, classVars, cfgVars, readVars, watchVars, shutVars, nameVars>>

\* The first full list arrives with n items.
FirstList(n) ==
  /\ ~crashed
  /\ reflector = "running"
  /\ ~listed
  /\ listed' = TRUE
  /\ initialPending' = n
  /\ hasSynced' = HasSyncedAfter(hasSynced, listed', initialPending')
  /\ lastActivity' = "list"
  /\ UNCHANGED <<ctxState, diPc, startErr, stopCh, closes, stopCalls, reflector, waiterPc>>
  /\ UNCHANGED <<cacheVars, leVars, recVars, classVars, cfgVars, readVars, watchVars, shutVars, nameVars>>

\* One item of the first full list is applied to the store (an Added event).
ApplyInitial ==
  /\ ~crashed
  /\ reflector = "running"
  /\ listed
  /\ initialPending > 0
  /\ initialPending' = initialPending - 1
  /\ hasSynced' = HasSyncedAfter(hasSynced, listed, initialPending')
  /\ lastActivity' = "initial"
  /\ UNCHANGED <<ctxState, diPc, startErr, stopCh, closes, stopCalls, reflector, listed,
                 waiterPc>>
  /\ UNCHANGED <<cacheVars, leVars, recVars, classVars, cfgVars, readVars, watchVars, shutVars, nameVars>>

\* Later activity of the loop: a watch event is applied ("watch", at any time:
\* section 4.2 ApplyEvent), a periodic resync runs, or the watch reconnects
\* and relists.
Later(kind) ==
  /\ ~crashed
  /\ reflector = "running"
  /\ kind # "watch" => listed
  /\ lastActivity' = kind
  /\ hasSynced' = HasSyncedAfter(hasSynced, listed, initialPending)
  /\ UNCHANGED <<ctxState, diPc, startErr, stopCh, closes, stopCalls, reflector, listed,
                 initialPending, waiterPc>>
  /\ UNCHANGED <<cacheVars, leVars, recVars, classVars, cfgVars, readVars, watchVars, shutVars, nameVars>>

\* The caller cancels the context, or its deadline passes.
Cancel(kind) ==
  /\ ~crashed
  /\ ctxState = "live"
  /\ ctxState' = kind
  /\ UNCHANGED <<diPc, startErr, stopCh, closes, stopCalls, reflector, listed,
                 initialPending, hasSynced, lastActivity, waiterPc>>
  /\ UNCHANGED <<cacheVars, leVars, recVars, classVars, cfgVars, readVars, watchVars, shutVars, nameVars>>

\* What StartDeploymentInformer does when its sync wait returns false:
\* DeploymentInformer returns an error (informer.go:307-309), the
\* package-level function ends the process with os.Exit(1) (informer.go:49-54).
FailedSync(v) ==
  IF v = "struct" THEN [pc |-> "returned", err |-> "syncError"]
                  ELSE [pc |-> "exited", err |-> "none"]

\* The sync wait of StartDeploymentInformer returns.
SyncWaitReturns(res) ==
  /\ ~crashed
  /\ diPc = "waitSync"
  /\ res \in WaitForCacheSyncResults
  /\ IF res THEN /\ diPc' = "blocked"
                 /\ UNCHANGED startErr
            ELSE /\ diPc' = FailedSync(variant).pc
                 /\ startErr' = FailedSync(variant).err
  /\ UNCHANGED <<ctxState, stopCh, closes, stopCalls, reflector, listed, initialPending,
                 hasSynced, lastActivity, waiterPc>>
  /\ UNCHANGED <<cacheVars, leVars, recVars, classVars, cfgVars, readVars, watchVars, shutVars, nameVars>>

\* close(di.stopCh): closing a closed channel panics.
CloseStopCh ==
  /\ closes' = closes + 1
  /\ stopCh' = "closed"
  /\ crashed' = (stopCh = "closed")

\* <-ctx.Done() returns (informer.go:313-318, 56): DeploymentInformer closes
\* its stop channel and returns nil; the package-level function returns.
CtxDoneObserved ==
  /\ ~crashed
  /\ diPc = "blocked"
  /\ ctxState # "live"
  /\ IF variant = "struct"
       THEN /\ CloseStopCh
            /\ diPc' = IF crashed' THEN diPc ELSE "returned"
            /\ startErr' = IF crashed' THEN startErr ELSE "nil"
       ELSE /\ diPc' = "returned"
            /\ startErr' = "nil"
            /\ UNCHANGED <<stopCh, closes, crashed>>
  /\ UNCHANGED <<ctxState, stopCalls, reflector, listed, initialPending, hasSynced,
                 lastActivity, waiterPc>>
  /\ UNCHANGED <<variant, cache, applied, notified, lastList>>
  /\ UNCHANGED <<leVars, recVars, classVars, cfgVars, readVars, watchVars, shutVars, nameVars>>

\* Stop() (informer.go:321-326).  di.stopCh is set at construction and never
\* reset, so the nil test always passes.
Stop ==
  /\ ~crashed
  /\ variant = "struct"
  /\ stopCalls < MaxStops
  /\ stopCalls' = stopCalls + 1
  /\ CloseStopCh
  /\ UNCHANGED <<ctxState, diPc, startErr, reflector, listed, initialPending, hasSynced,
                 lastActivity, waiterPc>>
  /\ UNCHANGED <<variant, cache, applied, notified, lastList>>
  /\ UNCHANGED <<leVars, recVars, classVars, cfgVars, readVars, watchVars, shutVars, nameVars>>

\* DeploymentInformer.WaitForCacheSync(ctx) (informer.go:333-336) is called.
WaitCall ==
  /\ ~crashed
  /\ variant = "struct"
  /\ waiterPc = "idle"
  /\ waiterPc' = "waiting"
  /\ UNCHANGED <<ctxState, diPc, startErr, stopCh, closes, stopCalls, reflector, listed,
                 initialPending, hasSynced, lastActivity>>
  /\ UNCHANGED <<cacheVars, leVars, recVars, classVars, cfgVars, readVars, watchVars, shutVars, nameVars>>

\* ... and returns.
WaitReturns(res) ==
  /\ ~crashed
  /\ waiterPc = "waiting"
  /\ res \in WaitForCacheSyncResults
  /\ waiterPc' = IF res THEN "true" ELSE "false"
  /\ UNCHANGED <<ctxState, diPc, startErr, stopCh, closes, stopCalls, reflector, listed,
                 initialPending, hasSynced, lastActivity>>
  /\ UNCHANGED <<cacheVars, leVars, recVars, classVars, cfgVars, readVars, watchVars, shutVars, nameVars>>

InitInformer ==
  /\ variant \in {"struct", "package"}
  /\ cache = [k \in Keys |-> Absent]
  /\ applied = <<>>
  /\ notified = <<>>
  /\ lastList = NoList
  /\ crashed = FALSE
  /\ LifeIdle
  /\ CfgIdle
  /\ ClassIdle
  /\ LeIdle
  /\ RecIdle
  /\ ReadIdle
  /\ WatchIdle
  /\ ShutIdle
  /\ NameIdle

NextInformer ==
  \/ Start
  \/ ReflectorStops
  \/ \E n \in 0..MaxItems : FirstList(n)
  \/ ApplyInitial
  \/ \E kind \in {"watch", "resync", "reconnect"} : Later(kind)
  \/ \E kind \in {"cancelled", "deadline"} : Cancel(kind)
  \/ \E res \in BOOLEAN : SyncWaitReturns(res)
  \/ CtxDoneObserved
  \/ Stop
  \/ WaitCall
  \/ \E res \in BOOLEAN : WaitReturns(res)

SpecInformer == InitInformer /\ [][NextInformer]_vars

\* The same with the scheduling Go gives the goroutine running
\* StartDeploymentInformer: a wait that can return does return.
SpecInformerLive ==
  /\ SpecInformer
  /\ WF_vars(\E res \in BOOLEAN : SyncWaitReturns(res))
  /\ WF_vars(CtxDoneObserved)

\* ======================================================================
\* SpecConfig: NewDeploymentInformer (pkg/informer/informer.go) and
\* getKubeClient (cmd/list.go) on every configuration and environment
\* ======================================================================
Paths == {"", "/invalid/path", "/valid/config"}
Homes == {"", "/home/u"}

ConfigInputs ==
  [InCluster : BOOLEAN,         \* InformerConfig.InCluster
   Kubeconfig : Paths,          \* InformerConfig.Kubeconfig
   inClusterEnv : BOOLEAN,      \* the process runs inside a cluster
   flagKubeconfig : Paths,      \* the --kubeconfig flag of cmd
   envKubeconfig : Paths,       \* $KUBECONFIG
   home : Homes,                \* homedir.HomeDir()
   homeConfigExists : BOOLEAN]  \* ~/.kube/config is a readable kubeconfig

ErrNeither == "either kubeconfig path or in-cluster mode must be specified"
ErrInCluster == "failed to get in-cluster config"
ErrKubeconfig == "failed to build config from kubeconfig"
ErrBuildConfig == "failed to build config"

HomeConfig(in) == "/home/u/.kube/config"

\* rest.InClusterConfig() succeeds inside a cluster only.
InClusterConfigOk(in) == in.inClusterEnv

\* clientcmd.BuildConfigFromFlags("", path): an empty path falls back to the
\* in-cluster configuration, any other path must name a readable kubeconfig.
BuildConfigFromFlagsOk(in, path) ==
  IF path = "" THEN InClusterConfigOk(in)
  ELSE IF path = HomeConfig(in) THEN in.homeConfigExists
  ELSE path = "/valid/config"

Failed(fn, msg, n) ==
  [fn |-> fn, err |-> msg, clientset |-> FALSE, informer |-> FALSE, builds |-> n,
   auth |-> ""]

\* The outcome `out` of a constructor, with the configuration source it was
\* built from: "in-cluster" or the kubeconfig path handed to the loader.
Using(out, a) == [out EXCEPT !.auth = a]

\* The source clientcmd.BuildConfigFromFlags("", path) loads: the file at path,
\* or the in-cluster configuration for the empty path.
AuthOf(path) == IF path = "" THEN "in-cluster" ELSE path

\* NewDeploymentInformer (informer.go:188-238).
NewDeploymentInformerAcceptsNeither(in) ==
  [fn |-> "NewDeploymentInformer", err |-> NoErr, clientset |-> TRUE, informer |-> TRUE,
   builds |-> 1, auth |-> ""]
NewDeploymentInformer(in) ==
  IF in.InCluster
    THEN Using(IF InClusterConfigOk(in)
                 THEN [fn |-> "NewDeploymentInformer", err |-> NoErr, clientset |-> TRUE,
                       informer |-> TRUE, builds |-> 1, auth |-> ""]
                 ELSE Failed("NewDeploymentInformer", ErrInCluster, 1),
               "in-cluster")
  ELSE IF in.Kubeconfig # ""
    THEN Using(IF BuildConfigFromFlagsOk(in, in.Kubeconfig)
                 THEN [fn |-> "NewDeploymentInformer", err |-> NoErr, clientset |-> TRUE,
                       informer |-> TRUE, builds |-> 1, auth |-> ""]
                 ELSE Failed("NewDeploymentInformer", ErrKubeconfig, 1),
               in.Kubeconfig)
  ELSE Failed("NewDeploymentInformer", ErrNeither, 0)

\* getKubeconfigPath (cmd/list.go:142-153).
getKubeconfigPath(in) ==
  IF in.flagKubeconfig # "" THEN in.flagKubeconfig
  ELSE IF in.envKubeconfig # "" THEN in.envKubeconfig
  ELSE IF in.home # "" THEN HomeConfig(in)
  ELSE ""

\* getKubeClient (cmd/list.go:133-140).
getKubeClient(in) ==
  Using(IF BuildConfigFromFlagsOk(in, getKubeconfigPath(in))
          THEN [fn |-> "getKubeClient", err |-> NoErr, clientset |-> TRUE, informer |-> FALSE,
                builds |-> 1, auth |-> ""]
          ELSE Failed("getKubeClient", ErrBuildConfig, 1),
        AuthOf(getKubeconfigPath(in)))

\* serverCmd.Run (cmd/server.go:36-39): $KUBECONFIG stands in for an empty flag.
serverKubeconfig(in) ==
  IF in.flagKubeconfig = "" THEN in.envKubeconfig ELSE in.flagKubeconfig

\* getServerKubeClient (cmd/server.go:123-135) as Run calls it at line 41;
\* in.InCluster is the --in-cluster flag.  The loader's error is returned as is.
ErrLoad == "unable to load configuration"
getServerKubeClient(in) ==
  IF in.InCluster
    THEN Using(IF InClusterConfigOk(in)
                 THEN [fn |-> "getServerKubeClient", err |-> NoErr, clientset |-> TRUE,
                       informer |-> FALSE, builds |-> 1, auth |-> ""]
                 ELSE Failed("getServerKubeClient", ErrLoad, 1),
               "in-cluster")
    ELSE Using(IF BuildConfigFromFlagsOk(in, serverKubeconfig(in))
                 THEN [fn |-> "getServerKubeClient", err |-> NoErr, clientset |-> TRUE,
                       informer |-> FALSE, builds |-> 1, auth |-> ""]
                 ELSE Failed("getServerKubeClient", ErrLoad, 1),
               AuthOf(serverKubeconfig(in)))

\* getInformerKubeconfigPath (cmd/server.go:309-324).
getInformerKubeconfigPath(in) ==
  IF ~in.InCluster
    THEN IF in.flagKubeconfig # "" THEN in.flagKubeconfig
         ELSE IF in.envKubeconfig # "" THEN in.envKubeconfig
         ELSE IF in.home # "" THEN HomeConfig(in)
         ELSE ""
    ELSE ""

\* MarkFlagsMutuallyExclusive("kubeconfig", "in-cluster") (cmd/server.go:339):
\* the command does not run with both flags given.
FlagsAccepted(in) == ~(in.flagKubeconfig # "" /\ in.InCluster)

\* startDeploymentInformer (cmd/server.go:280-307) up to the constructor's return.
startDeploymentInformer(in) ==
  [NewDeploymentInformer([in EXCEPT !.Kubeconfig = getInformerKubeconfigPath(in)])
     EXCEPT !.fn = "startDeploymentInformer"]

CallNewDeploymentInformer ==
  /\ cfgOut = NoOut
  /\ cfgOut' = NewDeploymentInformer(cfgIn)
  /\ UNCHANGED cfgIn
  /\ UNCHANGED <<leVars, cacheVars, recVars, classVars, lifeVars, readVars, watchVars, shutVars, nameVars>>

CallGetKubeClient ==
  /\ cfgOut = NoOut
  /\ cfgOut' = getKubeClient(cfgIn)
  /\ UNCHANGED cfgIn
  /\ UNCHANGED <<leVars, cacheVars, recVars, classVars, lifeVars, readVars, watchVars, shutVars, nameVars>>

CallGetServerKubeClient ==
  /\ cfgOut = NoOut
  /\ cfgOut' = getServerKubeClient(cfgIn)
  /\ UNCHANGED cfgIn
  /\ UNCHANGED <<leVars, cacheVars, recVars, classVars, lifeVars, readVars, watchVars, shutVars, nameVars>>

CallStartDeploymentInformer ==
  /\ cfgOut = NoOut
  /\ FlagsAccepted(cfgIn)
  /\ cfgOut' = startDeploymentInformer(cfgIn)
  /\ UNCHANGED cfgIn
  /\ UNCHANGED <<leVars, cacheVars, recVars, classVars, lifeVars, readVars, watchVars, shutVars, nameVars>>

InitConfig ==
  /\ cfgIn \in ConfigInputs
  /\ cfgOut = NoOut
  /\ LeIdle
  /\ CacheIdle
  /\ RecIdle
  /\ ClassIdle
  /\ LifeIdle
  /\ ReadIdle
  /\ WatchIdle
  /\ ShutIdle
  /\ NameIdle

NextConfig ==
  \/ CallNewDeploymentInformer
  \/ CallGetKubeClient
  \/ CallGetServerKubeClient
  \/ CallStartDeploymentInformer

SpecConfig == InitConfig /\ [][NextConfig]_vars

\* ======================================================================
\* SpecRead: GetDeploymentNames (pkg/informer/informer.go:120-132) called from
\* the HTTP handlers (cmd/server.go:92-108) while the goroutine of
\* StartDeploymentInformer (cmd/server.go:48) assigns the package variable
\* deploymentInformer and applies events to its store
\* ======================================================================
\* Every order in which store.List() may hand out the objects of a set.
NameSeqs(S) ==
  {q \in UNION {[1..n -> S] : n \in {Cardinality(S)}} :
     \A i, j \in 1..Len(q) : i # j => q[i] # q[j]}

ReadPanic == [kind |-> "panic", names |-> <<>>]

\* What a reader sees of the two-word interface value once it has loaded it.
\* The variable is written and read without synchronisation: a load between the
\* two word stores sees one word only.  `deploymentInformer == nil` tests the
\* type word; the method call dereferences the data word.
IsNilView(view) == view \in {"nil", "dataOnly"}

\* GetDeploymentNames on the value `view` of the package variable and the store
\* c: the set of results the call may produce.
GetDeploymentNamesSkipsNilCheck(view, c) ==
  IF view = "set"
    THEN {[kind |-> "names", names |-> q] :
            q \in NameSeqs({d.name : d \in ListDeployments(c)})}
    ELSE {ReadPanic}
GetDeploymentNames(view, c) ==
  IF IsNilView(view) THEN {[kind |-> "names", names |-> <<>>]}
  ELSE IF view = "typeOnly" THEN {ReadPanic}
  ELSE {[kind |-> "names", names |-> q] :
          q \in NameSeqs({d.name : d \in ListDeployments(c)})}

\* informer.go:33: one word of the interface value reaches memory.
StoreWord(w) ==
  /\ ~crashed
  /\ \/ informerVar = "nil" /\ informerVar' = w
     \/ informerVar \in {"typeOnly", "dataOnly"} /\ informerVar # w /\ informerVar' = "set"
  /\ UNCHANGED <<readerPc, readerView, readResult>>
  /\ UNCHANGED <<leVars, cacheVars, recVars, classVars, lifeVars, cfgVars, watchVars, shutVars, nameVars>>

\* The informer goroutine, past factory.Start (informer.go:48), applies one
\* event to the store under the store's lock.
StoreEvent(e) ==
  /\ ~crashed
  /\ informerVar = "set"
  /\ cache' = Apply(cache, e)
  /\ UNCHANGED <<variant, applied, notified, lastList, crashed>>
  /\ UNCHANGED readVars
  /\ UNCHANGED <<leVars, recVars, classVars, lifeVars, cfgVars, watchVars, shutVars, nameVars>>

\* informer.go:122: the caller loads the package variable.
LoadInformerVar ==
  /\ ~crashed
  /\ readerPc = "idle"
  /\ readerPc' = "loaded"
  /\ readerView' = informerVar
  /\ readResult' = NoRead
  /\ UNCHANGED informerVar
  /\ UNCHANGED <<leVars, cacheVars, recVars, classVars, lifeVars, cfgVars, watchVars, shutVars, nameVars>>

\* informer.go:122-131: the nil test, GetStore().List() under the store's lock
\* and the loop over the listed objects.
ListNames(res) ==
  /\ ~crashed
  /\ readerPc = "loaded"
  /\ res \in GetDeploymentNames(readerView, cache)
  /\ readResult' = res
  /\ readerPc' = "idle"
  /\ crashed' = (res.kind = "panic")
  /\ UNCHANGED <<informerVar, readerView>>
  /\ UNCHANGED <<variant, cache, applied, notified, lastList>>
  /\ UNCHANGED <<leVars, recVars, classVars, lifeVars, cfgVars, watchVars, shutVars, nameVars>>

ReadResults ==
  {ReadPanic} \cup UNION {[kind : {"names"}, names : NameSeqs(S)] : S \in SUBSET Keys}

InitRead ==
  /\ variant = "package"
  /\ cache = [k \in Keys |-> Absent]
  /\ applied = <<>>
  /\ notified = <<>>
  /\ lastList = NoList
  /\ crashed = FALSE
  /\ ReadIdle
  /\ LeIdle
  /\ RecIdle
  /\ ClassIdle
  /\ LifeIdle
  /\ CfgIdle
  /\ WatchIdle
  /\ ShutIdle
  /\ NameIdle

NextRead ==
  \/ \E w \in {"typeOnly", "dataOnly"} : StoreWord(w)
  \/ \E e \in ChangeEvents : StoreEvent(e)
  \/ LoadInformerVar
  \/ \E res \in ReadResults : ListNames(res)

SpecRead == InitRead /\ [][NextRead]_vars

\* ======================================================================
\* SpecWatch: the list-and-watch sessions that feed the informer's store
\* (client-go reflector, started by factory.Start, informer.go:302-303), the
\* store and the handlers of StartDeploymentInformer
\* ======================================================================
\* Incremental events are applied only while a watch session is open.
WatchOpenAlways == TRUE
WatchOpen == watchState = "open"

\* The resourceVersion a session opened after list l starts from, per key.
Baseline(l) == [k \in Keys |-> IF l[k] = Absent THEN 0 ELSE l[k].rv]

\* One event of the open session is applied to the store and handed to the
\* handlers.  Within a session the events of a key arrive in non-decreasing
\* resourceVersion order (section 4.1).
WatchEvent(e) ==
  /\ ~crashed
  /\ WatchOpen
  /\ e.type # "Deleted" => e.obj.rv >= sessionRV[e.key]
  /\ cache' = Apply(cache, e)
  /\ notified' = Notify(variant, cache, e)
  /\ crashed' = HasPanic(notified')
  /\ sessionRV' = IF e.type = "Deleted" THEN sessionRV
                  ELSE [sessionRV EXCEPT ![e.key] = e.obj.rv]
  /\ UNCHANGED <<variant, applied, lastList, watchState>>
  /\ UNCHANGED <<leVars, recVars, classVars, lifeVars, cfgVars, readVars, shutVars, nameVars>>

\* The watch stream fails or ends.
WatchFails ==
  /\ ~crashed
  /\ watchState = "open"
  /\ watchState' = "closed"
  /\ UNCHANGED <<sessionRV, cacheVars>>
  /\ UNCHANGED <<leVars, recVars, classVars, lifeVars, cfgVars, readVars, shutVars, nameVars>>

\* A full list is taken: the first one, or the fresh one after a failure.  No
\* order is implied between it and what earlier sessions delivered.
Relist(l) ==
  /\ ~crashed
  /\ watchState = "closed"
  /\ WellFormedList(l)
  /\ lastList' = l
  /\ watchState' = "listed"
  /\ UNCHANGED <<variant, cache, applied, notified, crashed, sessionRV>>
  /\ UNCHANGED <<leVars, recVars, classVars, lifeVars, cfgVars, readVars, shutVars, nameVars>>

\* The store is resynced against the list taken (Resync of section 4.2).
Replace ==
  /\ ~crashed
  /\ watchState = "listed"
  /\ LET es == ResyncEvents(cache, lastList, KeySeq) IN
       /\ cache' = ApplyAll(cache, es)
       /\ notified' = NotifyAll(variant, cache, es)
  /\ crashed' = HasPanic(notified')
  /\ watchState' = "resynced"
  /\ UNCHANGED <<variant, applied, lastList, sessionRV>>
  /\ UNCHANGED <<leVars, recVars, classVars, lifeVars, cfgVars, readVars, shutVars, nameVars>>

\* The watch is re-opened from the resourceVersion of the list.
Reopen ==
  /\ ~crashed
  /\ watchState = "resynced"
  /\ watchState' = "open"
  /\ sessionRV' = Baseline(lastList)
  /\ lastList' = NoList
  /\ UNCHANGED <<variant, cache, applied, notified, crashed>>
  /\ UNCHANGED <<leVars, recVars, classVars, lifeVars, cfgVars, readVars, shutVars, nameVars>>

\* DeleteFunc is called with a payload that is no deployment.
OnDeleteForeign(p) ==
  /\ ~crashed
  /\ notified' = DeleteFunc(variant, p)
  /\ UNCHANGED <<variant, cache, applied, lastList, crashed, watchVars>>
  /\ UNCHANGED <<leVars, recVars, classVars, lifeVars, cfgVars, readVars, shutVars, nameVars>>

InitWatch ==
  /\ variant \in {"struct", "package"}
  /\ cache = [k \in Keys |-> Absent]
  /\ applied = <<>>
  /\ notified = <<>>
  /\ lastList = NoList
  /\ crashed = FALSE
  /\ WatchIdle
  /\ LeIdle
  /\ RecIdle
  /\ ClassIdle
  /\ LifeIdle
  /\ CfgIdle
  /\ ReadIdle
  /\ ShutIdle
  /\ NameIdle

NextWatch ==
  \/ \E e \in ChangeEvents : WatchEvent(e)
  \/ WatchFails
  \/ \E l \in FullLists : Relist(l)
  \/ Replace
  \/ Reopen
  \/ \E p \in ForeignPayloads : OnDeleteForeign(p)

SpecWatch == InitWatch /\ [][NextWatch]_vars

\* ======================================================================
\* SpecShutdown: the loops serverCmd.Run starts, the context each of them
\* waits on, and what a shutdown signal does to them (cmd/server.go)
\* ======================================================================
OtherGroups ==
  <<leVars, cacheVars, recVars, classVars, lifeVars, cfgVars, readVars, watchVars, nameVars>>

\* The context the shutdown signal cancels: the one Run derives and cancels on
\* SIGINT/SIGTERM (server.go:196-221), and for the command without signal
\* handling the command's own context (server.go:81).
RootCtx(v) == IF v = "signal" THEN "root" ELSE "cmd"

\* The context Run hands to the informer loop: context.Background() at
\* server.go:47-48, the cancellable ctx at server.go:214-218.
InformerCtx(v) == IF v = "manager" THEN "background" ELSE "root"

\* server.go:47-48 / 213-219 -- the informer goroutine is started.
StartInformer ==
  /\ procUp
  /\ \/ srvVariant = "manager" /\ runPc = "start" /\ runPc' = "informerStarted"
     \/ srvVariant = "signal" /\ runPc = "httpStarted" /\ enableInformer
          /\ runPc' = "waitSignal"
  /\ loopState' = [loopState EXCEPT !["informer"] = "syncing"]
  /\ loopCtx' = [loopCtx EXCEPT !["informer"] = InformerCtx(srvVariant)]
  /\ UNCHANGED <<srvVariant, enableInformer, shutdownSignalled, ctxCancelled, procUp>>
  /\ UNCHANGED openConns
  /\ UNCHANGED OtherGroups

\* server.go:213 -- enableInformer is false: no informer goroutine.
SkipInformer ==
  /\ procUp
  /\ srvVariant = "signal" /\ runPc = "httpStarted" /\ ~enableInformer
  /\ runPc' = "waitSignal"
  /\ UNCHANGED <<srvVariant, enableInformer, loopState, loopCtx, shutdownSignalled,
                 ctxCancelled, procUp>>
  /\ UNCHANGED openConns
  /\ UNCHANGED OtherGroups

\* server.go:79-85 -- the goroutine calling mgr.Start(cmd.Context()).
StartManager ==
  /\ procUp
  /\ srvVariant = "manager" /\ runPc = "informerStarted"
  /\ runPc' = "managerStarted"
  /\ loopState' = [loopState EXCEPT !["manager"] = "running"]
  /\ loopCtx' = [loopCtx EXCEPT !["manager"] = "cmd"]
  /\ UNCHANGED <<srvVariant, enableInformer, shutdownSignalled, ctxCancelled, procUp>>
  /\ UNCHANGED openConns
  /\ UNCHANGED OtherGroups

\* server.go:114-118 -- fasthttp.ListenAndServe(addr, handler) blocks Run and
\* takes no context; server.go:205-209 -- startHTTPServer(ctx) in a goroutine.
StartHTTP ==
  /\ procUp
  /\ \/ srvVariant = "manager" /\ runPc = "managerStarted" /\ runPc' = "serving"
          /\ loopCtx' = [loopCtx EXCEPT !["http"] = "none"]
     \/ srvVariant = "signal" /\ runPc = "start" /\ runPc' = "httpStarted"
          /\ loopCtx' = [loopCtx EXCEPT !["http"] = "root"]
  /\ loopState' = [loopState EXCEPT !["http"] = "running"]
  /\ UNCHANGED <<srvVariant, enableInformer, shutdownSignalled, ctxCancelled, procUp>>
  /\ UNCHANGED openConns
  /\ UNCHANGED OtherGroups

\* Shutdown is signalled to the process.  The command without signal handling
\* has its own context cancelled by it; the other one queues the signal in
\* sigCh (server.go:200-201).
Signal ==
  /\ procUp
  /\ ~shutdownSignalled
  /\ shutdownSignalled' = TRUE
  /\ ctxCancelled' = IF srvVariant = "manager" THEN ctxCancelled \cup {"cmd"}
                     ELSE ctxCancelled
  /\ UNCHANGED <<srvVariant, enableInformer, runPc, loopState, loopCtx, procUp>>
  /\ UNCHANGED openConns
  /\ UNCHANGED OtherGroups

\* server.go:221-223 -- <-sigCh; cancel().
CancelRoot ==
  /\ procUp
  /\ srvVariant = "signal" /\ runPc = "waitSignal" /\ shutdownSignalled
  /\ runPc' = "cancelled"
  /\ ctxCancelled' = ctxCancelled \cup {"root"}
  /\ UNCHANGED <<srvVariant, enableInformer, loopState, loopCtx, shutdownSignalled, procUp>>
  /\ UNCHANGED openConns
  /\ UNCHANGED OtherGroups

\* A running loop sees the Done channel of its context closed:
\* StartDeploymentInformer and mgr.Start return, startHTTPServer calls
\* server.Shutdown() (server.go:270-277), which closes the listener.
ObserveCancel(l) ==
  /\ procUp
  /\ loopState[l] \in {"syncing", "running", "notListening"}
  /\ loopCtx[l] \in ctxCancelled
  /\ loopState' = [loopState EXCEPT ![l] =
                     IF l = "http" THEN "shuttingDown"
                     ELSE IF l = "informer" /\ srvVariant = "signal" /\ loopState[l] = "syncing"
                            THEN "syncFailed"
                            ELSE "stopped"]
  /\ UNCHANGED <<srvVariant, enableInformer, runPc, loopCtx, shutdownSignalled,
                 ctxCancelled, procUp>>
  /\ UNCHANGED openConns
  /\ UNCHANGED OtherGroups

\* The informer's cache has synced; the call now blocks on <-ctx.Done()
\* (informer.go:56, 313-314).
InformerSynced ==
  /\ procUp
  /\ loopState["informer"] = "syncing"
  /\ loopState' = [loopState EXCEPT !["informer"] = "running"]
  /\ UNCHANGED <<srvVariant, enableInformer, runPc, openConns, loopCtx, shutdownSignalled,
                 ctxCancelled, procUp>>
  /\ UNCHANGED OtherGroups

\* A loop ends with an error of its own.  An error of mgr.Start or of the
\* blocking fasthttp.ListenAndServe ends the process (server.go:81-84,
\* 115-118); in the command with signal handling an error of
\* NewDeploymentInformer, or of StartDeploymentInformer before its sync wait,
\* is logged and the informer's goroutine returns (server.go:293-306), a sync
\* wait ended by cancellation returns "failed to sync informer cache"
\* (informer.go:307-309, ObserveCancel), and an error of
\* server.ListenAndServe is logged while startHTTPServer goes on waiting for
\* its context (server.go:263-270).
LoopFails(l) ==
  /\ procUp
  /\ Active(loopState[l])
  /\ IF srvVariant = "manager"
       THEN /\ l \in {"manager", "http"}
            /\ procUp' = FALSE
            /\ loopState' = [x \in Loops |-> IF Active(loopState[x]) THEN "stopped"
                                             ELSE loopState[x]]
            /\ runPc' = "exited"
            /\ openConns' = 0
       ELSE /\ \/ l = "informer" /\ loopState[l] = "syncing"
                    /\ loopState' = [loopState EXCEPT ![l] = "failed"]
               \/ l = "http" /\ loopState[l] = "running"
                    /\ loopState' = [loopState EXCEPT ![l] = "notListening"]
            /\ UNCHANGED <<procUp, runPc, openConns>>
  /\ UNCHANGED <<srvVariant, enableInformer, loopCtx, shutdownSignalled, ctxCancelled>>
  /\ UNCHANGED OtherGroups

\* A wait group that counts the HTTP goroutine only: what wg.Wait() would
\* be if the informer goroutine were started without wg.Add(1).
WaitGroupDoneHTTPOnly == ~Active(loopState["http"])

\* server.go:205-218, 225 -- the wait group counts the HTTP goroutine and,
\* when the informer is enabled, the informer goroutine; each calls
\* wg.Done() as it returns, and wg.Wait() unblocks when both have.
WaitGroupDone == \A l \in {"http", "informer"} : ~Active(loopState[l])

\* server.go:225-227 -- wg.Wait() returns, "All services stopped" is logged
\* and Run ends.
WaitDone ==
  /\ procUp
  /\ srvVariant = "signal" /\ runPc = "cancelled"
  /\ WaitGroupDone
  /\ runPc' = "returned"
  /\ UNCHANGED <<srvVariant, enableInformer, loopState, loopCtx, shutdownSignalled,
                 ctxCancelled, procUp>>
  /\ UNCHANGED openConns
  /\ UNCHANGED OtherGroups

\* The listening HTTP server accepts a connection.
AcceptConn ==
  /\ procUp
  /\ loopState["http"] = "running"
  /\ openConns < MaxConns
  /\ openConns' = openConns + 1
  /\ UNCHANGED <<srvVariant, enableInformer, runPc, loopState, loopCtx, shutdownSignalled,
                 ctxCancelled, procUp>>
  /\ UNCHANGED OtherGroups

\* A handler returns and its connection is closed.
CloseConn ==
  /\ procUp
  /\ openConns > 0
  /\ openConns' = openConns - 1
  /\ UNCHANGED <<srvVariant, enableInformer, runPc, loopState, loopCtx, shutdownSignalled,
                 ctxCancelled, procUp>>
  /\ UNCHANGED OtherGroups

\* server.Shutdown() returns once no connection is open (server.go:272-276).
ShutdownReturns ==
  /\ procUp
  /\ loopState["http"] = "shuttingDown"
  /\ openConns = 0
  /\ loopState' = [loopState EXCEPT !["http"] = "stopped"]
  /\ UNCHANGED <<srvVariant, enableInformer, runPc, openConns, loopCtx, shutdownSignalled,
                 ctxCancelled, procUp>>
  /\ UNCHANGED OtherGroups

InitShutdown ==
  /\ srvVariant \in {"manager", "signal"}
  /\ enableInformer \in BOOLEAN
  /\ srvVariant = "manager" => enableInformer
  /\ runPc = "start"
  /\ loopState = [l \in Loops |-> "none"]
  /\ openConns = 0
  /\ loopCtx = [l \in Loops |-> "none"]
  /\ shutdownSignalled = FALSE
  /\ ctxCancelled = {}
  /\ procUp = TRUE
  /\ LeIdle
  /\ CacheIdle
  /\ RecIdle
  /\ ClassIdle
  /\ LifeIdle
  /\ CfgIdle
  /\ ReadIdle
  /\ WatchIdle
  /\ NameIdle

NextShutdown ==
  \/ StartInformer
  \/ SkipInformer
  \/ StartManager
  \/ StartHTTP
  \/ Signal
  \/ CancelRoot
  \/ \E l \in Loops : ObserveCancel(l)
  \/ InformerSynced
  \/ \E l \in Loops : LoopFails(l)
  \/ WaitDone
  \/ AcceptConn
  \/ CloseConn
  \/ ShutdownReturns

\* Go schedules every goroutine that can run: a loop whose context is done
\* returns, Run proceeds from one statement to the next.
SpecShutdown ==
  /\ InitShutdown
  /\ [][NextShutdown]_vars
  /\ \A l \in Loops : WF_vars(ObserveCancel(l))
  /\ WF_vars(StartInformer) /\ WF_vars(SkipInformer) /\ WF_vars(StartManager)
  /\ WF_vars(StartHTTP) /\ WF_vars(CancelRoot) /\ WF_vars(WaitDone)
  /\ WF_vars(CloseConn) /\ WF_vars(ShutdownReturns)

\* ======================================================================
\* SpecName: getDeploymentName called on a table of arguments, as
\* TestGetDeploymentName does (pkg/informer/informer_test.go:189-229)
\* ======================================================================
MaxCases == 3

\* The names of the test's table (informer_test.go:196-216) and a key.
DeploymentNames == {"", "d1", "test-deployment"}

NamedDeployment(n) == [kind |-> "Deployment", name |-> n, rv |-> 1, replicas |-> 1]

\* A nil *appsv1.Deployment held in a variable or a table field
\* (informer_test.go:205-207); Absent is the literal nil.
NilPointer == [kind |-> "NilDeployment", name |-> "", rv |-> 0, replicas |-> 0]

NameInputs == {Absent, NilPointer} \cup {NamedDeployment(n) : n \in DeploymentNames}

NamePanic == [panic |-> TRUE, name |-> ""]
NameReturned(n) == [panic |-> FALSE, name |-> n]

\* informer.go:148-153 -- a nil *appsv1.Deployment passed as `obj any` is a
\* non-nil interface value whose type implements metav1.Object: the type
\* assertion succeeds and d.GetName() reads through the nil pointer.
GetNamePanics(obj) == obj.kind = "NilDeployment"

\* The call getDeploymentName(arg) (informer_test.go:223).  "struct": the
\* parameter is a *appsv1.Deployment, to which both nils convert;
\* "package": the parameter is `obj any`.
CallGetDeploymentName(v, arg) ==
  IF v = "struct"
    THEN NameReturned(getDeploymentName(IF arg = NilPointer THEN Absent ELSE arg))
    ELSE IF GetNamePanics(arg) THEN NamePanic
                              ELSE NameReturned(getDeploymentNameAny(arg))

NamePanicked == \E i \in 1..Len(nameResults) : nameResults[i].panic

\* informer_test.go:221-228 -- the next case of the table runs; a panic ends
\* the run.
RunCase ==
  /\ ~NamePanicked
  /\ Len(nameResults) < Len(nameTests)
  /\ nameResults' = Append(nameResults,
                           CallGetDeploymentName(nameVariant, nameTests[Len(nameResults) + 1]))
  /\ UNCHANGED <<nameVariant, nameTests>>
  /\ UNCHANGED <<leVars, cacheVars, recVars, classVars, lifeVars, cfgVars, readVars,
                 watchVars, shutVars>>

InitName ==
  /\ nameVariant \in {"struct", "package"}
  /\ nameTests \in UNION {[1..n -> NameInputs] : n \in 1..MaxCases}
  /\ nameResults = <<>>
  /\ LeIdle
  /\ CacheIdle
  /\ RecIdle
  /\ ClassIdle
  /\ LifeIdle
  /\ CfgIdle
  /\ ReadIdle
  /\ WatchIdle
  /\ ShutIdle

NextName == RunCase

SpecName == InitName /\ [][NextName]_vars

\* ======================================================================
\* Claims checked under Spec
\* ======================================================================
Leaders == {r \in Replicas : role[r] = "Leader"}

\* C1 -- Leader safety: with leader election enabled on every replica and one
\* shared lease record, at most one replica is in Leader state at any instant.
C1_LeaderSafety == enableLeaderElection => Cardinality(Leaders) <= 1

\* A second holder has taken the lease over and leads while the first is stopped.
C1_Witness ==
  /\ enableLeaderElection
  /\ lease.term >= 2
  /\ role[lease.holder] = "Leader"
  /\ \E s \in Replicas : s # lease.holder /\ role[s] = "Stopped"

\* C2 -- Fail-safe demotion: a replica in Leader state holds a confirmed lease
\* write that has not expired, and a failed renewal or a reached renew deadline
\* takes the replica out of Leader state in that very step, so that no reconcile
\* can be dispatched by it afterwards.
C2_FailSafeDemotion ==
  /\ [](enableLeaderElection =>
          \A r \in Replicas : role[r] = "Leader" =>
             /\ lease # NoLease
             /\ lease.holder = r
             /\ now < lease.renewDeadline
             /\ renewDeadline[r] = lease.renewDeadline)
  /\ [][\A r \in Replicas :
          (RenewFails(r) \/ DeadlineReached(r)) =>
             /\ role'[r] # "Leader"
             /\ ~(MayDispatch(r))']_vars

\* A replica lost leadership while the lease it wrote is still unexpired.
C2_Witness ==
  /\ enableLeaderElection
  /\ lease # NoLease
  /\ role[lease.holder] = "Stopped"
  /\ now < lease.renewDeadline
  /\ queue[lease.holder] # <<>>

\* C3 -- An acquire-or-renew attempt by P succeeds exactly when the record is
\* absent, expired or held by P; it fails exactly when another identity holds
\* it unexpired, and a failed attempt leaves the record unchanged.
C3_HeldByLiveOther(r) ==
  /\ lease # NoLease
  /\ lease.holder # r
  /\ now < lease.renewDeadline

C3_AcquireOrRenew ==
  [][\A r \in Replicas : TryAcquireOrRenew(r) =>
        /\ (role'[r] = "Leader") <=> ~C3_HeldByLiveOther(r)
        /\ (role'[r] = "Leader") =>
              /\ lease'.holder = r
              /\ lease'.renewDeadline = now + LeaseTerm
        /\ (role'[r] # "Leader") => lease' = lease]_vars

\* A candidate was refused because another replica holds the lease unexpired.
C3_Witness ==
  \E r \in Replicas :
    /\ role[r] = "Follower"
    /\ C3_HeldByLiveOther(r)
    /\ role[lease.holder] = "Leader"

\* C4 -- Reconcile work is dispatched only while the replica is Leader: a
\* reconcile starts only in a state where its replica is Leader; after demotion
\* in-flight work may still finish but nothing new is dispatched.
C4_DispatchOnlyWhileLeader ==
  [][\A r \in Replicas : \A k \in Keys :
        inflight'[r][k] > inflight[r][k] => (role[r] = "Leader" /\ role'[r] = "Leader")]_vars

\* A demoted replica still has a reconcile in flight and a request pending.
C4_Witness ==
  \E r \in Replicas :
    /\ role[r] = "Stopped"
    /\ InFlightTotal(r) > 0
    /\ queue[r] # <<>>

\* C7 -- Queue dedup: the reconcile queue holds at most one pending request
\* per key, whatever Enqueue calls were made.
C7_QueueDedup ==
  \A r \in Replicas : \A k \in Keys : CountPending(r, k) <= 1

\* Every key is pending once: each further Enqueue is a repeated one.
C7_Witness ==
  \E r \in Replicas : \A k \in Keys : CountPending(r, k) = 1

RECURSIVE LastEventFor(_, _)
LastEventFor(es, k) ==
  IF es = <<>> THEN Absent
  ELSE LET e == es[Len(es)] IN
       IF e.key = k THEN e ELSE LastEventFor(SubSeq(es, 1, Len(es) - 1), k)

ReplaySet(es) ==
  {LastEventFor(es, k).obj :
     k \in {x \in Keys : /\ LastEventFor(es, x) # Absent
                         /\ LastEventFor(es, x).type # "Deleted"}}

\* C5 -- Replay convergence: the cache listing equals the set obtained by
\* replaying the applied events with last-write-wins per key and Deleted
\* removing the key.
C5_ReplayConvergence == ListDeployments(cache) = ReplaySet(applied)

\* add d1, update d1, add d2, delete d1 style history: a key was written and
\* deleted, another one survives.
C5_Witness ==
  /\ Len(applied) >= 3
  /\ \E i \in 1..Len(applied) : applied[i].type = "Deleted" /\ applied[i].key = "d1"
  /\ \E i \in 1..Len(applied) : applied[i].type # "Deleted" /\ applied[i].key = "d1"
  /\ Cardinality(ListDeployments(cache)) = 1
  /\ cache["d2"] # Absent

\* C6 -- Resync idempotence: a Resync with the same full list as the Resync
\* just before it leaves the cache as it is and notifies nothing.
C6_ResyncIdempotent ==
  [][(lastList # NoList /\ lastList' = lastList /\ applied' # applied) =>
        (cache' = cache /\ notified' = <<>>)]_vars

\* The same, for the handlers of DeploymentInformer.StartDeploymentInformer.
C6_ResyncIdempotentStruct ==
  [][(variant = "struct" /\ lastList # NoList /\ lastList' = lastList /\ applied' # applied) =>
        (cache' = cache /\ notified' = <<>>)]_vars

\* ======================================================================
\* Claims checked under SpecReconcile
\* ======================================================================
\* C10 -- When Reconcile's Get returns NotFound, Reconcile returns no error and
\* no requeue, logs no scaling or condition signal, and the request is dropped.
C10_NotFoundIsSuccess ==
  /\ [](lastGet = "notfound" =>
          /\ lastResult.err = FALSE
          /\ lastResult.requeue = FALSE
          /\ signals = <<>>
          /\ lastReq \notin pending)
  /\ [][(lastGet = "notfound" /\ lastReq' = NoReq) =>
          (pending' = pending /\ backoff' = backoff)]_vars

\* Reconcile of a deployment that failed once and was then deleted has just
\* returned.
C10_Witness ==
  /\ lastReq # NoReq
  /\ lastGet = "notfound"
  /\ numRequeues[lastReq] > 0

\* C11 -- When Reconcile's Get fails with an error other than NotFound,
\* Reconcile returns the error and the controller puts the request back
\* rate-limited, counting one more failure for its key; a request that waits
\* in the backoff or in the queue leaves it only towards the queue or a
\* worker, whatever number of failures has been counted.  The controller is
\* built with no maximum retry count (deployment_controller.go:124-128), so no
\* request is ever given up as a terminal failure.
C11_RequeueOnError ==
  /\ [](lastGet = "error" => lastResult.err)
  /\ [][(lastGet = "error" /\ lastReq' = NoReq) =>
          /\ lastReq \in backoff'
          /\ numRequeues'[lastReq] = numRequeues[lastReq] + 1]_vars
  /\ [][\A k \in Keys :
          /\ k \in backoff => (k \in backoff' \/ k \in pending')
          /\ k \in pending => (k \in pending' \/ lastReq' = k)]_vars

\* A request has failed MaxRequeues times in a row and is waiting once more.
C11_Witness ==
  \E k \in Keys : k \in backoff /\ numRequeues[k] = MaxRequeues /\ lastReq = NoReq

\* ======================================================================
\* Claims checked under SpecClassify
\* ======================================================================
IsScaling(l) == l.msg \in {"scaling UP", "scaling DOWN"}
IsCondition(l) == l.msg = "condition"
ScaleUp(from, to) == LogLine("scaling UP", ClassifyKey, from, to, NoCond)
ScaleDown(from, to) == LogLine("scaling DOWN", ClassifyKey, from, to, NoCond)

\* C12 -- For a delivered snapshot with desired count d (0 when unset) and
\* current count c, the reconciler logs exactly one scaling UP from c to d when
\* d > c, exactly one scaling DOWN from c to d when d < c, and no scaling line
\* when d = c; for old = {desired 3, current 3} followed by new = {desired 5,
\* current 3} the scaling lines are exactly [scaling UP from 3 to 5].
C12_ScalingDirection ==
  (newSnap.present /\ ~crashed) =>
    LET d == IF newSnap.desired = NilReplicas THEN 0 ELSE newSnap.desired
        c == newSnap.current
        sc == SelectSeq(derived, IsScaling)
    IN /\ d > c => sc = <<ScaleUp(c, d)>>
       /\ d < c => sc = <<ScaleDown(c, d)>>
       /\ d = c => sc = <<>>
       /\ (oldSnap.present /\ oldSnap.desired = 3 /\ oldSnap.current = 3
             /\ newSnap.desired = 5 /\ newSnap.current = 3)
            => sc = <<ScaleUp(3, 5)>>

\* The example of the claim has been delivered, and so has a snapshot whose
\* desired count is unset.
C12_Witness ==
  /\ oldSnap.present /\ oldSnap.desired = 3 /\ oldSnap.current = 3
  /\ newSnap.desired = 5 /\ newSnap.current = 3
  /\ newSnap.conditions = <<>>
  /\ ~crashed
  /\ SelectSeq(derived, IsScaling) = <<ScaleUp(3, 5)>>

C12_WitnessUnset ==
  /\ newSnap.present /\ newSnap.desired = NilReplicas /\ newSnap.current = 2
  /\ ~crashed
  /\ SelectSeq(derived, IsScaling) = <<ScaleDown(2, 0)>>

IsSignal(l) == IsScaling(l) \/ IsCondition(l)
IsUpdate(l) == l.event = "UPDATE"

\* C13 -- When the old snapshot is absent, or old and new carry the same
\* resourceVersion, the delivery yields no scaling line, no condition line and
\* no update event.
C13_DuplicateNoOp ==
  (newSnap.present /\ ~crashed /\ (~oldSnap.present \/ oldSnap.rv = newSnap.rv)) =>
    /\ SelectSeq(derived, IsSignal) = <<>>
    /\ SelectSeq(updateEvents, IsUpdate) = <<>>

\* The part of C13 that DeploymentInformer's UpdateFunc (informer.go:261)
\* does keep: no update event for a delivery with an unchanged resourceVersion.
C13_SameVersionNoUpdateStruct ==
  (variant = "struct" /\ newSnap.present /\ ~crashed
     /\ (~oldSnap.present \/ oldSnap.rv = newSnap.rv)) =>
    SelectSeq(updateEvents, IsUpdate) = <<>>

\* -1, 0, 1: desired below, equal to, above current.
Drift(s) ==
  LET d == IF s.desired = NilReplicas THEN 0 ELSE s.desired
  IN IF d > s.current THEN 1 ELSE IF d < s.current THEN 0 - 1 ELSE 0

\* C14 -- When the snapshot delivered before already had desired and current
\* differing in the same direction as the new one, the new delivery yields no
\* scaling line.
C14_ScalingOnlyOnTransition ==
  (oldSnap.present /\ newSnap.present /\ ~crashed
     /\ Drift(newSnap) # 0 /\ Drift(oldSnap) = Drift(newSnap)) =>
    SelectSeq(derived, IsScaling) = <<>>

SameCondition(a, b) == a.type = b.type /\ a.status = b.status /\ a.reason = b.reason
ConditionChanged(old, cnd) ==
  ~ \E j \in 1..Len(old.conditions) : SameCondition(old.conditions[j], cnd)
ConditionLines(cnd) ==
  SelectSeq(derived, LAMBDA l : IsCondition(l) /\ SameCondition(l.cond, cnd))

\* C15 -- For each condition of the new snapshot, the delivery yields exactly
\* one condition line when the old snapshot has no condition of that type or
\* has it with another (status, reason), and no condition line when the old
\* snapshot has it unchanged.
C15_ConditionTransition ==
  (newSnap.present /\ ~crashed) =>
    \A i \in 1..Len(newSnap.conditions) :
      LET cnd == newSnap.conditions[i]
      IN IF ConditionChanged(oldSnap, cnd)
           THEN Len(ConditionLines(cnd)) = 1
           ELSE Len(ConditionLines(cnd)) = 0

\* The part of C15 that logDeploymentEvent does keep: a condition that is new
\* or changed yields exactly one condition line.
C15_ChangedConditionLogged ==
  (newSnap.present /\ ~crashed) =>
    \A i \in 1..Len(newSnap.conditions) :
      ConditionChanged(oldSnap, newSnap.conditions[i])
        => Len(ConditionLines(newSnap.conditions[i])) = 1

\* ======================================================================
\* Claims checked under SpecInformer and SpecInformerLive
\* ======================================================================
\* C16 -- hasSynced is false from construction until the first full list has
\* been received and applied, becomes true at that point and only there, and
\* never returns to false, whatever resyncs and reconnects follow; an Added
\* event applied before that does not make it true.
C16_HasSyncedOnce ==
  /\ [](hasSynced <=> (listed /\ initialPending = 0))
  /\ [][hasSynced => hasSynced']_vars
  /\ [][(~hasSynced /\ hasSynced') =>
          (lastActivity' \in {"list", "initial"} /\ listed' /\ initialPending' = 0)]_vars
  /\ [][(lastActivity' \in {"watch", "resync", "reconnect"}) =>
          hasSynced' = hasSynced]_vars

\* The cache synced and then saw a reconnect with its relist.
C16_Witness ==
  /\ hasSynced
  /\ lastActivity = "reconnect"
  /\ reflector = "running"

\* An Added event has been applied while the first list was still incomplete.
C16_WitnessAddedAlone ==
  /\ ~hasSynced
  /\ lastActivity \in {"watch", "initial"}

\* C17 -- When the sync wait of StartDeploymentInformer gives up because the
\* context ended before the cache synced, the call returns an error to its
\* caller.
C17_FailedSyncIsError ==
  [][(diPc = "waitSync" /\ diPc' \notin {"waitSync", "blocked"}) =>
        (diPc' = "returned" /\ startErr' = "syncError")]_vars

\* The parts of C17 that hold: WaitForCacheSync returns true only if the cache
\* has synced and false only if the context has ended, and
\* DeploymentInformer.StartDeploymentInformer returns the error.
C17_WaitForSyncResult ==
  /\ waiterPc = "true" => hasSynced
  /\ waiterPc = "false" => ctxState # "live"

C17_FailedSyncIsErrorStruct ==
  [][(variant = "struct" /\ diPc = "waitSync" /\ diPc' \notin {"waitSync", "blocked"}) =>
        (diPc' = "returned" /\ startErr' = "syncError")]_vars

\* C18 -- Whenever StartDeploymentInformer has returned, before or after the
\* cache synced, it returned no error or the context's deadline error.
C18_ReturnsNilOrDeadline ==
  diPc = "returned" => startErr \in {"nil", "deadlineExceeded"}

\* The parts of C18 that hold: once its context is cancelled or past its
\* deadline, a running StartDeploymentInformer comes to an end (by a panic if
\* Stop closed the stop channel before it, see C19); DeploymentInformer's
\* returns nil when it saw the cache synced before it saw the context end, and
\* the error "failed to sync informer cache" when its sync wait saw the
\* context end.
C18_StartTerminates ==
  /\ (ctxState # "live" /\ diPc \in {"waitSync", "blocked"})
       ~> (diPc \in {"returned", "exited"} \/ crashed)
  /\ []((variant = "struct" /\ diPc = "returned") =>
          /\ ctxState # "live"
          /\ startErr \in {"nil", "syncError"}
          /\ startErr = "nil" => hasSynced)
  /\ [][(variant = "struct" /\ diPc' = "returned" /\ diPc # "returned") =>
          startErr' = IF diPc = "blocked" THEN "nil" ELSE "syncError"]_vars

\* C19 -- Whatever Stop calls are made, before or after the context of a
\* running StartDeploymentInformer is cancelled, close(di.stopCh) is executed
\* at most once and nothing panics.
C19_StopRepeatable ==
  closes <= 1 /\ ~crashed

\* ======================================================================
\* Claims checked under SpecConfig
\* ======================================================================
\* C20 -- A constructor that fails returns its error after at most one attempt
\* to build the configuration and creates neither client nor informer:
\* NewDeploymentInformer with neither in-cluster mode nor a kubeconfig path
\* fails with "either kubeconfig path or in-cluster mode must be specified",
\* with in-cluster mode outside a cluster it fails, and getKubeClient with the
\* kubeconfig flag set to an invalid path fails.
C20_ConfigErrors ==
  /\ cfgOut.err # NoErr => (~cfgOut.clientset /\ ~cfgOut.informer)
  /\ cfgOut.builds <= 1
  /\ (cfgOut.fn = "NewDeploymentInformer" /\ ~cfgIn.InCluster /\ cfgIn.Kubeconfig = "")
       => (cfgOut.err = ErrNeither /\ cfgOut.builds = 0)
  /\ (cfgOut.fn = "NewDeploymentInformer" /\ cfgIn.InCluster /\ ~cfgIn.inClusterEnv)
       => cfgOut.err = ErrInCluster
  /\ (cfgOut.fn = "getKubeClient" /\ cfgIn.flagKubeconfig = "/invalid/path")
       => cfgOut.err # NoErr

\* NewDeploymentInformer has been called with neither authentication method.
C20_Witness ==
  /\ cfgOut.fn = "NewDeploymentInformer"
  /\ ~cfgIn.InCluster
  /\ cfgIn.Kubeconfig = ""
  /\ cfgOut.err = ErrNeither

\* ======================================================================
\* Claims checked under SpecRead
\* ======================================================================
ReadReturns == readerPc = "loaded" /\ readerPc' = "idle"

\* C21 -- Readers never see a torn cache: a read running beside the informer
\* goroutine never fails, and what it returns is the listing of the store as
\* an applied event left it, or the empty listing of the time before the
\* informer existed; nothing but StoreEvent changes the store.
C21_NoTornRead ==
  /\ [](readResult.kind # "panic")
  /\ [][ReadReturns =>
          \/ readerView = "nil" /\ readResult'.names = <<>>
          \/ readResult' \in GetDeploymentNames("set", cache)]_vars
  /\ [][cache' # cache => \E e \in ChangeEvents : StoreEvent(e)]_vars

\* C21, the part the store's lock gives: a call that loaded the whole value
\* returns the listing of the store at its List(), and only StoreEvent writes.
C21_StoreReadsAtomic ==
  /\ [][ReadReturns /\ readerView = "set" =>
          readResult' \in GetDeploymentNames("set", cache)]_vars
  /\ [][cache' # cache => \E e \in ChangeEvents : StoreEvent(e)]_vars

\* A call loaded the variable between its two word stores and has returned.
C21_TornLoad == readerView = "typeOnly" /\ readerPc = "idle" /\ readResult # NoRead

CachedNames == {k \in Keys : cache[k] # Absent}

\* C30 -- GetDeploymentNames returns exactly one name per deployment in the
\* cache and no other name; called before the informer has been started it
\* returns the empty sequence without failing; a call never changes the cache.
C30_GetDeploymentNames ==
  /\ [][ReadReturns /\ readerView = "set" =>
          /\ readResult'.kind = "names"
          /\ Len(readResult'.names) = Cardinality(CachedNames)
          /\ {readResult'.names[i] : i \in 1..Len(readResult'.names)} = CachedNames]_vars
  /\ [][ReadReturns /\ readerView = "nil" =>
          readResult' = [kind |-> "names", names |-> <<>>]]_vars
  /\ [][readerPc' # readerPc => cache' = cache]_vars

\* A call has listed a cache of two deployments.
C30_Witness ==
  /\ readerPc = "idle" /\ readerView = "set"
  /\ readResult.kind = "names" /\ Len(readResult.names) = 2
  /\ Cardinality(CachedNames) = 2

\* A call made before the informer was started has returned.
C30_WitnessNotStarted ==
  informerVar = "nil" /\ readerView = "nil" /\ readerPc = "idle" /\ readResult # NoRead

\* ======================================================================
\* Claims checked under SpecWatch
\* ======================================================================
VersionKept(k) ==
  cache[k] # Absent /\ cache'[k] # Absent => cache'[k].rv >= cache[k].rv

OneEntryPerKey ==
  \A a, b \in ListDeployments(cache) : a.name = b.name => a = b

\* C22 -- For every key the resourceVersion of its cached snapshot never
\* decreases while the entry lives, whatever watch events, reconnects and
\* resyncs arrive, and the cache never holds more than one entry for a key.
C22_VersionNeverDecreases ==
  /\ [][\A k \in Keys : VersionKept(k)]_vars
  /\ []OneEntryPerKey

\* C22, what the store does keep: one entry per key, and a resourceVersion that
\* does not decrease for as long as one watch session stays open.
C22_SessionMonotonic ==
  /\ [][watchState = "open" /\ watchState' = "open" => \A k \in Keys : VersionKept(k)]_vars
  /\ []OneEntryPerKey

\* A relist has put an older snapshot over a cached one.
C22_StaleReplace ==
  /\ watchState = "resynced"
  /\ \E k \in Keys : cache[k] # Absent /\ cache[k].rv < sessionRV[k]

Incremental == \E e \in ChangeEvents : WatchEvent(e)

\* C26 -- After a watch stream fails or ends, no incremental event is applied
\* to the cache until a fresh full list has been taken, the cache resynced
\* against it and the watch re-opened from that list's resourceVersion; the
\* cache then reflects the list, whatever was lost while disconnected.
C26_RelistBeforeResume ==
  /\ [][Incremental => watchState = "open"]_vars
  /\ [][watchState' # watchState =>
          <<watchState, watchState'>> \in
            {<<"open", "closed">>, <<"closed", "listed">>,
             <<"listed", "resynced">>, <<"resynced", "open">>}]_vars
  /\ [][watchState = "listed" /\ watchState' = "resynced" =>
          \A k \in Keys : cache'[k] = lastList[k]]_vars
  /\ [][watchState = "resynced" /\ watchState' = "open" =>
          /\ \A k \in Keys : cache[k] = lastList[k]
          /\ sessionRV' = Baseline(lastList)]_vars

\* After a failure the resync has removed a deployment that was deleted while
\* the watch was down, and has kept another.
C26_Witness ==
  /\ watchState = "resynced"
  /\ variant = "struct"
  /\ \E k \in Keys :
       /\ lastList[k] = Absent
       /\ \E i \in 1..Len(notified) :
            notified[i].event = "DELETE" /\ notified[i].deployment = k
  /\ \E k \in Keys : cache[k] # Absent

Removed(k) == cache[k] # Absent /\ cache'[k] = Absent
DeletesFor(log, name) ==
  Cardinality({i \in 1..Len(log) : log[i].event = "DELETE" /\ log[i].deployment = name})
DeleteLines(log) == Cardinality({i \in 1..Len(log) : log[i].event = "DELETE"})

\* C28 -- With the handlers of DeploymentInformer, every removal of a key from
\* the cache, by an explicit Deleted event or by a relist that no longer holds
\* the key (a tombstone wrapping the cached deployment), logs exactly one
\* delete naming that deployment, and no delete is logged without a removal; a
\* payload that is neither a deployment nor a tombstone of one logs an error
\* and no delete.
C28_OneDeletePerRemoval ==
  /\ [][variant = "struct" /\ notified' # notified =>
          /\ \A k \in Keys : DeletesFor(notified', k) = IF Removed(k) THEN 1 ELSE 0
          /\ DeleteLines(notified') = Cardinality({k \in Keys : Removed(k)})]_vars
  /\ [][variant = "struct" /\ (\E k \in Keys : Removed(k)) => notified' # notified]_vars
  /\ [][variant = "struct" /\ (\E p \in ForeignPayloads : OnDeleteForeign(p)) =>
          notified' = <<ErrorLog>>]_vars

\* One relist has removed two cached deployments: one delete logged for each.
C28_Witness ==
  /\ variant = "struct"
  /\ watchState = "resynced"
  /\ \A k \in Keys : lastList[k] = Absent /\ DeletesFor(notified, k) = 1

\* An explicit Deleted event has removed a cached deployment.
C28_WitnessExplicit ==
  /\ variant = "struct"
  /\ watchState = "open"
  /\ \E k \in Keys :
       /\ cache[k] = Absent
       /\ notified = <<[event |-> "DELETE", deployment |-> k, old |-> 0, new |-> 0]>>

\* DeleteFunc has been called with a payload that is no deployment.
C28_WitnessForeign == variant = "struct" /\ notified = <<ErrorLog>>

\* ======================================================================
\* Further claims checked under SpecInformer
\* ======================================================================
\* C24 -- No leak on premature return: whenever
\* DeploymentInformer.StartDeploymentInformer has returned after starting the
\* factory, by cancellation or by a failed cache sync, di.stopCh is closed.
C24_StopChClosedOnReturn ==
  (variant = "struct" /\ diPc = "returned") => stopCh = "closed"

\* C24, the return path that does close the channel: the call that returns nil
\* after the context ended.
C24_ClosedOnNormalReturn ==
  (variant = "struct" /\ diPc = "returned" /\ startErr = "nil") => stopCh = "closed"

\* The call has returned the sync error and nobody has called Stop.
C24_LeakedAfterFailedSync ==
  /\ variant = "struct" /\ diPc = "returned" /\ startErr = "syncError"
  /\ stopCh = "open" /\ reflector = "running"

\* ======================================================================
\* Further claims checked under Spec
\* ======================================================================
\* C25 -- On graceful shutdown while a replica is Leader and holds the lease,
\* the lease record is released or cleared by the time the replica has stopped,
\* so that a candidate can acquire it before it expires.
C25_ReleaseOnShutdown ==
  [][\A r \in Replicas :
       (enableLeaderElection /\ role[r] = "Leader" /\ lease.holder = r /\ Shutdown(r))
         => (lease' = NoLease \/ lease'.holder # r)]_vars

\* A replica that led has been shut down and its lease, not yet expired, still
\* names it: the candidate has to wait.
C25_LeaseKeptAfterShutdown ==
  \E r \in Replicas :
    /\ role[r] = "Stopped" /\ lease # NoLease /\ lease.holder = r /\ ~Expired(lease, now)
    /\ \E c \in Replicas : role[c] \in {"Candidate", "Follower"}

\* ======================================================================
\* Claims checked under SpecLease
\* ======================================================================
\* The holder h has stopped renewing and some other replica is still running.
HolderGone(h) ==
  /\ role[h] = "Stopped"
  /\ lease # NoLease /\ lease.holder = h
  /\ \E c \in Replicas \ {h} : role[c] # "Stopped"

\* C29 -- Lease takeover liveness: once the holder has stopped renewing, a
\* replica that keeps retrying eventually acquires the lease and leads (unless
\* every other replica is stopped too), and a replica takes over a lease held
\* by another only when its renew deadline has passed.  The deadline is within
\* the modelled time.
C29_TakeoverLiveness ==
  /\ \A h \in Replicas :
       (HolderGone(h) /\ lease.renewDeadline <= MaxTime)
         ~> \/ \E c \in Replicas \ {h} : role[c] = "Leader" /\ lease.holder = c
            \/ \A c \in Replicas \ {h} : role[c] = "Stopped"
  /\ [][\A c \in Replicas :
          (lease # NoLease /\ lease.holder # c /\ lease'.holder = c)
            => now >= lease.renewDeadline]_vars

\* A replica has taken over the lease of a stopped holder, at its deadline or later.
C29_Witness ==
  \E h, c \in Replicas :
    /\ h # c
    /\ role[h] = "Stopped" /\ role[c] = "Leader"
    /\ lease.holder = c /\ lease.term >= 2 /\ lease.acquiredAt >= LeaseTerm

\* ======================================================================
\* Further claims checked under SpecConfig
\* ======================================================================
\* The calls of the commands that resolve --kubeconfig, $KUBECONFIG and the home
\* directory: list (getKubeClient) and the two server commands.
CommandCalls == {"getKubeClient", "getServerKubeClient", "startDeploymentInformer"}

\* C27 -- Authentication source priority: a --kubeconfig path that is given is
\* the source the client is built from, whatever other method is given with
\* it; $KUBECONFIG is the source only when the flag is empty, and
\* ~/.kube/config only when both are empty.
C27_KubeconfigFlagFirst ==
  cfgOut.fn \in CommandCalls =>
    /\ cfgIn.flagKubeconfig # "" => cfgOut.auth = cfgIn.flagKubeconfig
    /\ (cfgOut.auth = cfgIn.envKubeconfig /\ cfgOut.auth # cfgIn.flagKubeconfig)
         => cfgIn.flagKubeconfig = ""
    /\ cfgOut.auth = HomeConfig(cfgIn)
         => (cfgIn.flagKubeconfig = "" /\ cfgIn.envKubeconfig = "")

\* C27, among the kubeconfig sources: without --in-cluster the flag is used
\* when given, else $KUBECONFIG when set, else (list and the informer server)
\* ~/.kube/config when there is a home directory.
C27_KubeconfigFallbackOrder ==
  (cfgOut.fn \in CommandCalls /\ ~cfgIn.InCluster) =>
    /\ cfgIn.flagKubeconfig # "" => cfgOut.auth = cfgIn.flagKubeconfig
    /\ (cfgIn.flagKubeconfig = "" /\ cfgIn.envKubeconfig # "")
         => cfgOut.auth = cfgIn.envKubeconfig
    /\ (cfgIn.flagKubeconfig = "" /\ cfgIn.envKubeconfig = "" /\ cfgIn.home # ""
          /\ cfgOut.fn # "getServerKubeClient")
         => cfgOut.auth = HomeConfig(cfgIn)
    /\ cfgOut.auth = HomeConfig(cfgIn)
         => (cfgIn.flagKubeconfig = "" /\ cfgIn.envKubeconfig = "")

\* server was run with --kubeconfig and --in-cluster and built its client from
\* the in-cluster configuration.
C27_InClusterOverFlag ==
  /\ cfgOut.fn = "getServerKubeClient"
  /\ cfgIn.flagKubeconfig # "" /\ cfgIn.InCluster
  /\ cfgOut.auth = "in-cluster"

\* ======================================================================
\* Claims checked under SpecShutdown
\* ======================================================================
StartupDone == runPc \notin {"start", "informerStarted", "managerStarted", "httpStarted"}
NoLoopRunning == \A l \in Loops : ~Active(loopState[l])

\* C23 -- A root cancellation signal reaches every running loop: no loop runs
\* on a context the shutdown signal does not cancel, and once shutdown has
\* been signalled the informer, the manager and the HTTP server all stop.
C23_CancellationReachesLoops ==
  /\ [](\A l \in Loops : Active(loopState[l]) => loopCtx[l] = RootCtx(srvVariant))
  /\ shutdownSignalled ~> (StartupDone /\ NoLoopRunning)

\* C23 for the server command that handles the signals itself
\* (cmd/server.go:191-230): its HTTP server and its informer run on the
\* context the signal cancels, and Run returns after both have stopped.
C23_SignalVariant ==
  /\ [](srvVariant = "signal" =>
          \A l \in Loops : Active(loopState[l]) => loopCtx[l] = "root")
  /\ [](srvVariant = "signal" /\ loopState["http"] = "stopped" => openConns = 0)
  /\ (srvVariant = "signal" /\ shutdownSignalled) ~> (runPc = "returned" /\ NoLoopRunning)

\* Shutdown has been signalled and the manager has stopped, while the informer
\* started on context.Background() and the HTTP server keep running.
C23_LoopsOutliveSignal ==
  /\ srvVariant = "manager" /\ shutdownSignalled
  /\ loopState["manager"] = "stopped"
  /\ loopState["informer"] = "running" /\ loopCtx["informer"] = "background"
  /\ loopState["http"] = "running"


----------------------------------------------------------------------------
C31_WitnessNeverSynced ==
  /\ srvVariant = "signal" /\ enableInformer /\ shutdownSignalled
  /\ runPc = "returned"
  /\ loopState["informer"] = "syncFailed" /\ loopState["http"] = "stopped"

\* The signal has arrived and the informer goroutine is still in its sync
\* wait while Run waits on the wait group.
C31_WitnessWaiting ==
  /\ srvVariant = "signal" /\ runPc = "cancelled"
  /\ loopState["informer"] = "syncing" /\ loopState["http"] = "stopped"


----------------------------------------------------------------------------
\* C32 -- The informer's Added and Modified handlers complete without
\* failure for every deployment snapshot delivered, also for one whose
\* desired replica count is unset, as Reconcile does (which reads an unset
\* count as 0): no delivery makes a handler panic.
C32_HandlersNeverFail == ~crashed /\ ~HasPanic(updateEvents)

\* What does hold: a handler fails only in the DeploymentInformer variant and
\* only on a snapshot (old or new) whose desired count is unset; the
\* package-level handlers, which do not read Spec.Replicas, never fail, and
\* whenever the handlers completed Reconcile has logged from an unset count
\* as from 0.
C32_FailsOnlyWhenUnset ==
  /\ crashed =>
        /\ variant = "struct"
        /\ newSnap.present
        /\ \/ newSnap.desired = NilReplicas
           \/ oldSnap.present /\ oldSnap.desired = NilReplicas /\ oldSnap.rv # newSnap.rv
  /\ (~crashed /\ newSnap.present /\ variant = "struct") =>
        \/ newSnap.desired # NilReplicas
        \/ oldSnap.present /\ oldSnap.rv = newSnap.rv
  /\ (~crashed /\ newSnap.present) =>
        derived = logDeploymentEvent(ClassifyKey, newSnap)

\* AddFunc of the DeploymentInformer variant has panicked on a first snapshot
\* whose desired count is unset.
C32_PanicOnAdd ==
  /\ variant = "struct" /\ crashed
  /\ ~oldSnap.present /\ newSnap.present /\ newSnap.desired = NilReplicas

\* UpdateFunc of the DeploymentInformer variant has panicked on an update
\* from a snapshot with a count to one without.
C32_PanicOnUpdate ==
  /\ variant = "struct" /\ crashed
  /\ oldSnap.present /\ oldSnap.desired # NilReplicas
  /\ newSnap.present /\ newSnap.desired = NilReplicas


----------------------------------------------------------------------------
\* C33 -- Reconcile is read-only: whatever the request, the state of the
\* store and the outcome of the Get (found, not found, error), a Reconcile
\* call leaves the authoritative store, the lease record and the informer's
\* cache as they were before it.
C33_ReconcileReadOnly ==
  [][(lastReq = NoReq /\ lastReq' # NoReq) =>
       /\ cluster' = cluster
       /\ lease' = lease
       /\ cache' = cache
       /\ lastGet' \in {"found", "notfound", "error"}
       /\ lastGet' = "found" <=> (cluster'[lastReq'].present /\ ~lastResult'.err /\ signals' # <<>>)
       /\ lastGet' = "error" <=> lastResult'.err]_vars

\* Reconcile has returned after reading a deployment, which is still in the
\* store.
C33_Witness ==
  /\ lastReq # NoReq /\ lastGet = "found"
  /\ cluster[lastReq].present /\ cluster[lastReq].desired = NilReplicas
  /\ signals # <<>>

\* Reconcile has returned after a Get that found nothing.
C33_WitnessNotFound ==
  lastReq # NoReq /\ lastGet = "notfound" /\ ~cluster[lastReq].present

\* Reconcile has returned the error of a failed Get of a deployment that the
\* store holds.
C33_WitnessError ==
  lastReq # NoReq /\ lastGet = "error" /\ lastResult.err /\ cluster[lastReq].present


----------------------------------------------------------------------------
\* C34 -- getDeploymentName returns "unknown" for an absent (nil) deployment
\* and otherwise the deployment's name unchanged, the empty string included:
\* every call made so far has returned, with that value.
ExpectedName(arg) == IF arg \in {Absent, NilPointer} THEN "unknown" ELSE arg.name

C34_GetDeploymentName ==
  \A i \in 1..Len(nameResults) :
    nameResults[i] = NameReturned(ExpectedName(nameTests[i]))

\* What does hold: the DeploymentInformer variant does so for every argument,
\* and the package-level variant for the literal nil and for every
\* deployment; its call panics exactly for a nil *appsv1.Deployment.
C34_GetDeploymentNameStruct ==
  \A i \in 1..Len(nameResults) :
    IF nameVariant = "package" /\ nameTests[i] = NilPointer
      THEN nameResults[i] = NamePanic /\ i = Len(nameResults)
      ELSE nameResults[i] = NameReturned(ExpectedName(nameTests[i]))

\* The three cases of TestGetDeploymentName have run against the
\* DeploymentInformer variant and returned what the test expects.
C34_WitnessTestTable ==
  /\ nameVariant = "struct"
  /\ nameTests = <<NamedDeployment("test-deployment"), NilPointer, NamedDeployment("")>>
  /\ nameResults = <<NameReturned("test-deployment"), NameReturned("unknown"),
                     NameReturned("")>>

\* The same table against the package-level variant: the nil case panics.
C34_TypedNilPanics ==
  /\ nameVariant = "package"
  /\ nameTests = <<NamedDeployment("test-deployment"), NilPointer, NamedDeployment("")>>
  /\ nameResults = <<NameReturned("test-deployment"), NamePanic>>

====
